---- MODULE Spec2Model ----
(***************************************************************************)
(* A model of the Notion quick-notes backend: the per-credential           *)
(* rate-limit state machine (src-tauri/src/rate_limit.rs) and the API      *)
(* client with its page cache, client pool and configuration store         *)
(* (src-tauri/src/notion.rs, config.rs), the status projection of          *)
(* src-tauri/src/lib.rs and the recovery actions of src-tauri/src/error.rs.*)
(*                                                                         *)
(* Time is an integer number of milliseconds; an Instant is the value of   *)
(* the clock `now`.  An Option is a sequence of length 0 (None) or 1       *)
(* (Some).                                                                 *)
(***************************************************************************)
EXTENDS Integers, Sequences, FiniteSets, TLC

VARIABLES
    now,        \* the clock (Instant::now()), in ms
    ticks,      \* how many times the clock has advanced (bounded)
    states,     \* RateLimitManager.states: token -> RateLimitState
    lastObs,    \* history: per credential, the latest observation recorded
    calls,      \* history: number of record_* calls made directly (SpecRL)
    config,     \* AppState.config: the configuration store
    cache,      \* PAGES_CACHE: Option<CacheEntry<Vec<NotionPage>>>
    pool,       \* CLIENT_POOL: the tokens that have a client stored
    lock,       \* the owner of each of the four mutexes
    tk,         \* per task: the running command, its position and locals
    ops,        \* number of commands started (bounded)
    chg,        \* history: credential changes and the listing calls after them
    first,      \* history: the latest fetched listing awaiting its follower
    probe       \* function-level specifications: the inputs drawn and the
                \* value the function under study returned for them

rlvars == <<now, ticks, states, lastObs, calls>>
opvars == <<config, cache, pool, lock, tk, ops, chg, first, probe>>
vars == <<now, ticks, states, lastObs, calls,
          config, cache, pool, lock, tk, ops, chg, first, probe>>

(***************************************************************************)
(* Bounds of the model.                                                    *)
(***************************************************************************)
MaxTicksRL == 2
MaxCalls == 3
MaxTicks == 1
MaxOps == 2
MaxListingOps == 3

\* The credentials that occur.
Creds == {"A", "B"}

\* How far the clock moves in one step of the rate-limit model (ms).
RLTickSteps == {1500, 30000}

(***************************************************************************)
(* Option values.                                                          *)
(***************************************************************************)
None == << >>
Some(x) == << x >>
IsSome(o) == o # None
Unwrap(o) == o[1]

Min(a, b) == IF a <= b THEN a ELSE b

RECURSIVE Pow2(_)
Pow2(n) == IF n = 0 THEN 1 ELSE 2 * Pow2(n - 1)

(***************************************************************************)
(* RateLimitState (rate_limit.rs).                                         *)
(***************************************************************************)
MaxRecent == 20
BaseBackoffMs == 1000
MaxBackoffMs == 300000
MaxExponent == 10

\* thread_rng().gen_range(0.75..1.25), in thousandths: the least value, the
\* middle and the greatest value below 1.25 that thousandths can express.
JitterFactors == {750, 1249}

\* impl Default for RateLimitState
DefaultState(t) ==
    [remaining |-> None, reset_at |-> None, limit |-> None,
     last_updated |-> t, recent_requests |-> << >>,
     consecutive_rate_limits |-> 0, is_rate_limited |-> FALSE]

BackoffMs_mutNoCap(n) ==
    BaseBackoffMs * Pow2(Min(n, MaxExponent))

\* base_backoff_ms * (1u64 << exponent), capped at max_backoff_ms
BackoffMs(n) ==
    Min(BaseBackoffMs * Pow2(Min(n, MaxExponent)), MaxBackoffMs)

\* (backoff_ms as f64 * jitter_factor) as u64
Jittered(b, f) == (b * f) \div 1000

backoff_allows_request_mutStrict(st, t, f) ==
    IF st.consecutive_rate_limits = 0 THEN TRUE
    ELSE (t - st.last_updated) > Jittered(BackoffMs(st.consecutive_rate_limits), f)

backoff_allows_request(st, t, f) ==
    IF st.consecutive_rate_limits = 0 THEN TRUE
    ELSE (t - st.last_updated) >= Jittered(BackoffMs(st.consecutive_rate_limits), f)

should_allow_request_mutBackoffFirst(st, t, f) ==
    IF ~st.is_rate_limited THEN TRUE
    ELSE IF IsSome(st.reset_at) /\ t > Unwrap(st.reset_at) THEN TRUE
    ELSE IF backoff_allows_request(st, t, f) THEN TRUE
    ELSE IF IsSome(st.remaining) THEN Unwrap(st.remaining) > 0
    ELSE FALSE

should_allow_request_mutNoRemaining(st, t, f) ==
    IF ~st.is_rate_limited THEN TRUE
    ELSE IF IsSome(st.reset_at) /\ t > Unwrap(st.reset_at) THEN TRUE
    ELSE backoff_allows_request(st, t, f)

should_allow_request(st, t, f) ==
    IF ~st.is_rate_limited THEN TRUE
    ELSE IF IsSome(st.reset_at) /\ t > Unwrap(st.reset_at) THEN TRUE
    ELSE IF IsSome(st.remaining) THEN Unwrap(st.remaining) > 0
    ELSE backoff_allows_request(st, t, f)

PushRecent_mutEarly(s, t) ==
    LET pushed == Append(s, t)
    IN  IF Len(pushed) >= MaxRecent THEN Tail(pushed) ELSE pushed

\* recent_requests.push(now), and remove(0) when the length is over 20
PushRecent(s, t) ==
    LET pushed == Append(s, t)
    IN  IF Len(pushed) > MaxRecent THEN Tail(pushed) ELSE pushed

record_success_mutKeepCounter(st, t) ==
    [st EXCEPT !.is_rate_limited = FALSE,
               !.recent_requests = PushRecent(@, t)]

record_success_mutTouch(st, t) ==
    [st EXCEPT !.consecutive_rate_limits = 0,
               !.is_rate_limited = FALSE,
               !.last_updated = t,
               !.remaining = None,
               !.recent_requests = PushRecent(@, t)]

record_success(st, t) ==
    [st EXCEPT !.consecutive_rate_limits = 0,
               !.is_rate_limited = FALSE,
               !.recent_requests = PushRecent(@, t)]

record_rate_limit_mutClearReset(st, t, reset_seconds, remaining, limit) ==
    [st EXCEPT !.consecutive_rate_limits = @ + 1,
               !.is_rate_limited = TRUE,
               !.last_updated = t,
               !.remaining = remaining,
               !.limit = limit,
               !.reset_at = IF IsSome(reset_seconds)
                            THEN Some(t + Unwrap(reset_seconds) * 1000)
                            ELSE None]

record_rate_limit_mutRestartCount(st, t, reset_seconds, remaining, limit) ==
    [st EXCEPT !.consecutive_rate_limits = 1,
               !.is_rate_limited = TRUE,
               !.last_updated = t,
               !.remaining = remaining,
               !.limit = limit,
               !.reset_at = IF IsSome(reset_seconds)
                            THEN Some(t + Unwrap(reset_seconds) * 1000)
                            ELSE @]

\* consecutive_rate_limits is a u32: the bounds on the number of responses
\* keep it far below 2^32, so the increment never overflows here.
record_rate_limit(st, t, reset_seconds, remaining, limit) ==
    [st EXCEPT !.consecutive_rate_limits = @ + 1,
               !.is_rate_limited = TRUE,
               !.last_updated = t,
               !.remaining = remaining,
               !.limit = limit,
               !.reset_at = IF IsSome(reset_seconds)
                            THEN Some(t + Unwrap(reset_seconds) * 1000)
                            ELSE @]

\* Option<u64>, whole seconds
time_until_reset(st, t) ==
    IF IsSome(st.reset_at)
    THEN Some(IF t >= Unwrap(st.reset_at) THEN 0
              ELSE (Unwrap(st.reset_at) - t) \div 1000)
    ELSE None

get_recommended_delay_mutResetOnly(st, t, f) ==
    IF ~st.is_rate_limited THEN 0
    ELSE IF IsSome(st.reset_at) /\ Unwrap(st.reset_at) > t
         THEN Unwrap(st.reset_at) - t
    ELSE 0

\* a Duration, in ms
get_recommended_delay(st, t, f) ==
    IF ~st.is_rate_limited THEN 0
    ELSE IF IsSome(st.reset_at) /\ Unwrap(st.reset_at) > t
         THEN Unwrap(st.reset_at) - t
    ELSE Jittered(BackoffMs(st.consecutive_rate_limits), f)

(***************************************************************************)
(* RateLimitManager (rate_limit.rs): each method is one critical section   *)
(* on the registry lock.                                                   *)
(***************************************************************************)
\* states.entry(token).or_default()
EntryOrDefault(reg, token, t) ==
    IF token \in DOMAIN reg THEN reg[token] ELSE DefaultState(t)

Put_mutAll(reg, token, st) ==
    [c \in DOMAIN reg \cup {token} |-> st]

\* states.entry(token): the entry of token is st, the others are kept
Put(reg, token, st) ==
    [c \in DOMAIN reg \cup {token} |-> IF c = token THEN st ELSE reg[c]]

Mgr_should_allow_request_mutDenyUnknown(reg, token, t, f) ==
    IF token \in DOMAIN reg THEN should_allow_request(reg[token], t, f)
    ELSE FALSE

Mgr_should_allow_request(reg, token, t, f) ==
    IF token \in DOMAIN reg THEN should_allow_request(reg[token], t, f)
    ELSE TRUE

Mgr_get_recommended_delay(reg, token, t, f) ==
    IF token \in DOMAIN reg THEN get_recommended_delay(reg[token], t, f)
    ELSE 0

Mgr_record_success_mutForget(reg, token, t) ==
    [c \in DOMAIN reg \ {token} |-> reg[c]]

Mgr_record_success(reg, token, t) ==
    Put(reg, token, record_success(EntryOrDefault(reg, token, t), t))

Mgr_record_rate_limit(reg, token, t, reset_seconds, remaining, limit) ==
    Put(reg, token,
        record_rate_limit(EntryOrDefault(reg, token, t), t,
                          reset_seconds, remaining, limit))

Mgr_get_state(reg, token) ==
    IF token \in DOMAIN reg THEN Some(reg[token]) ELSE None

AfterGetState_mutInsert(reg, token, t) ==
    Put(reg, token, EntryOrDefault(reg, token, t))

\* The registry after get_state: states.get(token).cloned() reads the map.
AfterGetState(reg, token, t) == reg

Mgr_time_until_reset(reg, token, t) ==
    IF token \in DOMAIN reg THEN time_until_reset(reg[token], t) ELSE None

(***************************************************************************)
(* History of observations, kept beside the registry.                      *)
(***************************************************************************)
NoObs ==
    [kind |-> "none", at |-> 0, reset |-> None, remaining |-> None,
     prev_n |-> 0, prev_limited |-> FALSE, rl30 |-> None, rl60z |-> None,
     run |-> 0]

ObserveSuccess(lo, reg, token, t) ==
    LET prev == EntryOrDefault(reg, token, t)
    IN  [lo EXCEPT ![token] =
            [kind |-> "success", at |-> t, reset |-> None, remaining |-> None,
             prev_n |-> prev.consecutive_rate_limits,
             prev_limited |-> prev.is_rate_limited, rl30 |-> None,
             rl60z |-> None, run |-> 0]]

ObserveRateLimit(lo, reg, token, t, reset_seconds, remaining) ==
    LET prev == EntryOrDefault(reg, token, t)
    IN  [lo EXCEPT ![token] =
            [kind |-> "rate_limit", at |-> t, reset |-> reset_seconds,
             remaining |-> remaining,
             prev_n |-> prev.consecutive_rate_limits,
             prev_limited |-> prev.is_rate_limited,
             rl30 |-> IF reset_seconds = Some(30) THEN Some(t) ELSE @.rl30,
             rl60z |-> IF reset_seconds = Some(60) /\ remaining = Some(0)
                       THEN Some(t) ELSE @.rl60z,
             run |-> @.run + 1]]

(***************************************************************************)
(* The API client and the commands (notion.rs).                            *)
(*                                                                         *)
(* Commands run as concurrent tasks.  A task's position is tk[t].pc.  A    *)
(* mutex scope of the code (lock(), the body, the guard dropped at the end *)
(* of the block) is one step: it waits while the mutex is owned, and it    *)
(* holds no await.  A task at a position of AwaitPcs is suspended on the   *)
(* network.  A finished command stays at "done" with its result until      *)
(* Return frees the task.                                                  *)
(***************************************************************************)
Tasks == {"t1", "t2"}
\* A command runs in the first free task.
Before(t) == IF t = "t2" THEN {"t1"} ELSE {}
Free == "free"
LockNames == {"registry", "cache", "pool", "config"}

\* How far the clock moves in one step of the client model (ms).
TickSteps == {5000}

\* const CACHE_DURATION: Duration = Duration::from_secs(300), in ms
CacheDurationMs == 300000

\* Strings a caller may pass: empty, blank, two tokens, and one that is no
\* legal header value.
TokenInputs == {"", " ", "A", "B", "BAD"}
PageIdInputs == {"", "p1", "zz"}
NoteInputs == {"", "note"}

\* str::trim, on the strings that occur
Trim(s) == IF s = " " THEN "" ELSE s

\* header::HeaderValue::from_str(&format!("Bearer {}", api_token)).is_ok()
ValidHeader(tok) == tok # "BAD"

\* SystemTime::now().duration_since(UNIX_EPOCH).as_secs()
WallSecs(t) == 1000 + t \div 1000

\* StatusCode::is_success
IsSuccess(status) == status >= 200 /\ status < 300

Statuses == {200, 401, 429}

\* The x-ratelimit-* headers of a response, as sent: reset is an absolute
\* epoch second, given here relative to the moment of receipt.
RawHeaders ==
    { [reset_in |-> None, remaining |-> None, limit |-> None],
      [reset_in |-> Some(60), remaining |-> Some(0), limit |-> Some(3)],
      [reset_in |-> Some(-5), remaining |-> Some(1), limit |-> Some(3)] }

\* extract_rate_limit_headers: (reset, remaining, limit), reset in seconds
\* from now, 0 when the timestamp is not in the future
extract_rate_limit_headers_mutAbsolute(raw, t) ==
    [reset |-> IF IsSome(raw.reset_in)
               THEN Some(WallSecs(t) + Unwrap(raw.reset_in)) ELSE None,
     remaining |-> raw.remaining,
     limit |-> raw.limit]

extract_rate_limit_headers(raw, t) ==
    LET unix_timestamp == WallSecs(t) + Unwrap(raw.reset_in)
    IN  [reset |-> IF IsSome(raw.reset_in)
                   THEN Some(IF unix_timestamp > WallSecs(t)
                             THEN unix_timestamp - WallSecs(t) ELSE 0)
                   ELSE None,
         remaining |-> raw.remaining,
         limit |-> raw.limit]

NoHeaders == [reset |-> None, remaining |-> None, limit |-> None]

\* Entries of a search response's "results" array: the id, the first
\* title-typed property's text, and the parent page's title, where present.
ResultsA ==
    << [id |-> "p1", prop_title |-> Some("T1"), parent_title |-> None],
       [id |-> "p2", prop_title |-> None, parent_title |-> None] >>
ResultsB ==
    << [id |-> "p3", prop_title |-> None, parent_title |-> Some("PT")] >>

\* The body of a 2xx search response: not JSON, JSON without a results
\* array, or JSON with one.
SearchBodies ==
    { [json |-> FALSE, results |-> None],
      [json |-> TRUE, results |-> None],
      [json |-> TRUE, results |-> Some(ResultsA)],
      [json |-> TRUE, results |-> Some(ResultsB)] }

\* results_array.iter().filter_map(..).collect()
RECURSIVE ExtractPages(_)
ExtractPages(entries) ==
    IF entries = << >> THEN << >>
    ELSE LET e == Head(entries)
             rest == ExtractPages(Tail(entries))
         IN  IF IsSome(e.prop_title)
             THEN <<[id |-> e.id, title |-> Unwrap(e.prop_title)]>> \o rest
             ELSE IF IsSome(e.parent_title)
             THEN <<[id |-> e.id, title |-> Unwrap(e.parent_title)]>> \o rest
             ELSE rest

\* pages.iter().find(|p| p.id == page_id)
FindPage(pages, page_id) ==
    LET idx == {i \in 1..Len(pages) : pages[i].id = page_id}
    IN  IF idx = {} THEN None
        ELSE Some(pages[CHOOSE i \in idx : \A j \in idx : i <= j])

DefaultPage(page_id) == [id |-> page_id, title |-> "Notion Page"]

(***************************************************************************)
(* Results: Result<_, AppError> as a record.                               *)
(***************************************************************************)
Res(kind, status, retry_after, limit, remaining, value) ==
    [kind |-> kind, status |-> status, retry_after |-> retry_after,
     limit |-> limit, remaining |-> remaining, value |-> value]

NoRes == Res("none", None, None, None, None, << >>)
Ok(value) == Res("Ok", None, None, None, None, value)
ValidationError == Res("ValidationError", None, None, None, None, << >>)
ConfigError == Res("ConfigError", None, None, None, None, << >>)
NetworkError == Res("NetworkError", None, None, None, None, << >>)
ApiError(status) == Res("NotionApiError", status, None, None, None, << >>)
RateLimitError(retry_after, limit, remaining) ==
    Res("RateLimitError", None, retry_after, limit, remaining, << >>)

(***************************************************************************)
(* Tasks.                                                                  *)
(***************************************************************************)
NoLookup ==
    [done |-> FALSE, hit |-> FALSE, first_after |-> FALSE,
     follows |-> FALSE, cred_changed |-> FALSE, touched |-> FALSE,
     within |-> FALSE, same |-> FALSE]

IdleTask ==
    [pc |-> "idle", cmd |-> "none", arg |-> "", api_token |-> "",
     page_id |-> "", ctx |-> "op", delay |-> 0,
     status |-> 0, raw |-> None, hdr |-> NoHeaders,
     err |-> NoRes, pending |-> NoRes, result |-> NoRes,
     is_limited |-> FALSE, retry_after |-> None,
     \* history of the running command
     denied |-> FALSE, checks |-> 0, sent |-> 0, recorded |-> "none",
     emitted |-> 0, no_page |-> FALSE,
     saw_first |-> FALSE, lk |-> NoLookup]

\* The mutex each position's scope locks.
LockOf(p) ==
    CASE p \in {"chk_allow", "chk_delay", "chk_state", "await_resp",
                "emit_state", "emit_allow", "emit_delay",
                "info_allow", "info_delay", "info_state"}
            -> "registry"
      [] p \in {"inval", "cache_lookup", "await_body"} -> "cache"
      [] p \in {"new_lookup", "new_insert"} -> "pool"
      [] p \in {"cfg_read", "cfg_store", "cfg_page", "info_cfg"} -> "config"
      [] OTHER -> "nolock"

\* send().await, res.json().await
AwaitPcs == {"await_resp", "await_body", "await_errbody"}

Held(t) == {l \in LockNames : lock[l] = t}

\* mutex.lock().unwrap()
Locked(lk, l, t) == [lk EXCEPT ![l] = t]

\* The guard goes out of scope.
Drop(lk, l) == [lk EXCEPT ![l] = Free]

\* The task is at position p and can take p's mutex.
InScope(t, p) == tk[t].pc = p /\ lock[LockOf(p)] = Free

\* The mutex after the scope at position p has run.
Unlock_mutKeepRegistry(t, p) ==
    IF p = "chk_allow" THEN Locked(lock, LockOf(p), t)
    ELSE Drop(Locked(lock, LockOf(p), t), LockOf(p))

Unlock_mutKeepPool(t, p) ==
    IF p = "new_insert" THEN Locked(lock, LockOf(p), t)
    ELSE Drop(Locked(lock, LockOf(p), t), LockOf(p))

Unlock(t, p) == Drop(Locked(lock, LockOf(p), t), LockOf(p))

Goto(r, p) == [r EXCEPT !.pc = p]
\* The command returns res; its locals are dropped.
Finish(r, res) ==
    [r EXCEPT !.pc = "done", !.result = res, !.api_token = "",
              !.page_id = "", !.ctx = "op", !.delay = 0, !.pending = NoRes,
              !.is_limited = FALSE, !.retry_after = None,
              !.saw_first = FALSE]
\* emit_rate_limit_event, then return res
EmitThen(r, res) == [r EXCEPT !.pc = "emit_state", !.pending = res]

\* The client operation (verify_token, search_pages, append_note_to_page)
\* returned Err(e): what the command does with it.
ClientErr(r, e) ==
    LET r1 == [r EXCEPT !.err = e]
    IN  CASE r.cmd = "set_token" -> Finish(r1, e)
          [] r.cmd = "get_page_info" /\ r.ctx = "op"
                -> EmitThen(r1, Ok(<<DefaultPage(r.arg)>>))
          [] OTHER -> EmitThen(r1, e)

\* search_pages returned Ok(pages).
SearchOk(r, pages) ==
    IF r.cmd = "get_page_info"
    THEN IF IsSome(FindPage(pages, r.arg))
         THEN EmitThen(r, Ok(FindPage(pages, r.arg)))
         ELSE Finish(r, Ok(<<DefaultPage(r.arg)>>))
    ELSE EmitThen(r, Ok(pages))

AfterNew_mutCheckFirst(r) ==
    CASE r.cmd \in {"search", "get_page_info"}
            -> Goto([r EXCEPT !.ctx = "pre"], "chk_allow")
      [] OTHER -> Goto([r EXCEPT !.ctx = "op"], "chk_allow")

\* NotionApiClient::new returned Ok: the command's next call.
AfterNew(r) ==
    CASE r.cmd = "search" -> Goto(r, "cache_lookup")
      [] r.cmd = "get_page_info" -> Goto([r EXCEPT !.ctx = "pre"], "chk_allow")
      [] OTHER -> Goto([r EXCEPT !.ctx = "op"], "chk_allow")

\* check_rate_limit returned Ok(()).
CheckOk(r) ==
    IF r.ctx = "pre" THEN Goto([r EXCEPT !.ctx = "op"], "cache_lookup")
    ELSE Goto([r EXCEPT !.sent = @ + 1], "await_resp")

\* check_rate_limit after should_allow_request answered.
AfterAllow(r, allow) ==
    IF allow THEN CheckOk([r EXCEPT !.denied = FALSE, !.checks = @ + 1])
    ELSE Goto([r EXCEPT !.denied = TRUE, !.checks = @ + 1], "chk_delay")

\* check_rate_limit after get_recommended_delay answered (ms).
AfterDelay(r, delay) ==
    IF delay = 0 THEN CheckOk(r)
    ELSE Goto([r EXCEPT !.delay = delay], "chk_state")

\* What the client records in the registry when send() fails.
SendErrorRecords_mutRateLimit == "rate_limit"

SendErrorRecords == "none"

\* What the client records in the registry for a response: handle_rate_limit
\* on 429, nothing on another non-2xx status (the operation returns before
\* process_response_headers), record_success otherwise.
ResponseRecords(status) ==
    IF status = 429 THEN "rate_limit"
    ELSE IF ~IsSuccess(status) THEN "none"
    ELSE "success"

Recorded_mutSkipLate(reg, what, token, t, hdr) ==
    CASE what = "rate_limit"
            -> Mgr_record_rate_limit(reg, token, t, hdr.reset, hdr.remaining,
                                     hdr.limit)
      [] what = "success"
            -> IF token \in DOMAIN reg /\ reg[token].is_rate_limited THEN reg
               ELSE Mgr_record_success(reg, token, t)
      [] OTHER -> reg

\* The registry after the client recorded what it records.
Recorded(reg, what, token, t, hdr) ==
    CASE what = "rate_limit"
            -> Mgr_record_rate_limit(reg, token, t, hdr.reset, hdr.remaining,
                                     hdr.limit)
      [] what = "success" -> Mgr_record_success(reg, token, t)
      [] OTHER -> reg

\* The history after the client recorded what it records.
History(lo, reg, what, token, t, hdr) ==
    CASE what = "rate_limit"
            -> ObserveRateLimit(lo, reg, token, t, hdr.reset, hdr.remaining)
      [] what = "success" -> ObserveSuccess(lo, reg, token, t)
      [] OTHER -> lo

\* The registry mutex after the client recorded what it records.
RecordLock(t, what) ==
    IF what = "none" THEN lock
    ELSE Drop(Locked(lock, "registry", t), "registry")

\* send() returned an error.
OnSendError(r) ==
    ClientErr([r EXCEPT !.recorded = SendErrorRecords], NetworkError)

\* handle_rate_limit's error value
RateLimitedFrom(hdr) == RateLimitError(hdr.reset, hdr.limit, hdr.remaining)

\* After process_response_headers on a 2xx response.
AfterSuccess(r) ==
    CASE r.cmd = "set_token" -> Goto(r, "cfg_store")
      [] r.cmd = "append_note" -> EmitThen(r, Ok(<< >>))
      [] OTHER -> Goto(r, "await_body")

\* A response with this status and these headers was received, and what the
\* client records for it has been recorded.
OnResponse(r, status, raw, hdr) ==
    LET r1 == [r EXCEPT !.status = status, !.recorded = ResponseRecords(status)]
    IN  IF status = 429
        THEN ClientErr([r1 EXCEPT !.raw = Some(raw), !.hdr = hdr],
                       RateLimitedFrom(hdr))
        ELSE IF ~IsSuccess(status)
        THEN IF r.cmd = "append_note" THEN Goto(r1, "await_errbody")
             ELSE ClientErr(r1, ApiError(Some(status)))
        ELSE AfterSuccess(r1)

\* The search response's body was read.
GoodBody(body) == body.json /\ IsSome(body.results)

OnSearchBody(r, body) ==
    IF ~GoodBody(body) THEN ClientErr(r, ApiError(None))
    ELSE SearchOk(r, ExtractPages(Unwrap(body.results)))

\* Instant::now() < entry.expires_at
CacheValid_mutNever(c, t) == FALSE

CacheValid_mutInclusive(c, t) == IsSome(c) /\ t <= Unwrap(c).expires_at

CacheValid(c, t) == IsSome(c) /\ t < Unwrap(c).expires_at

\* search_pages: the cached list when the entry is valid
CacheGet(c, t) == IF CacheValid(c, t) THEN Some(Unwrap(c).data) ELSE None

\* search_pages: *cache = Some(CacheEntry { data, expires_at })
CachePut(pages, t, token) ==
    Some([data |-> pages, expires_at |-> t + CacheDurationMs,
          token |-> token])

(***************************************************************************)
(* History kept for the claims about the cache.                            *)
(***************************************************************************)
NoFirst ==
    [valid |-> FALSE, list |-> << >>, put_at |-> 0, owner |-> "none",
     cred_changed |-> FALSE, touched |-> FALSE]

\* The listing call that fetched the list has returned.
FirstReturned(t) ==
    /\ first.valid
    /\ first.owner = t \/ tk[first.owner].pc \in {"idle", "done"}

\* The other running commands no longer count as following the list.
Unfollow(f, t) ==
    [u \in Tasks |-> IF u = t THEN f[u] ELSE [f[u] EXCEPT !.saw_first = FALSE]]

\* Another operation wrote or cleared the cache slot.
Touch(f) == IF f.valid THEN [f EXCEPT !.touched = TRUE] ELSE f

(***************************************************************************)
(* Initial state: the registry, cache and pool are empty; the              *)
(* configuration is the default one or one loaded from disk.               *)
(***************************************************************************)
\* Nothing is under study at function level.
NoProbe == [fn |-> "none"]

InitConfigs ==
    { [notion_api_token |-> "", selected_page_id |-> "",
       selected_page_title |-> ""],
      [notion_api_token |-> "A", selected_page_id |-> "p1",
       selected_page_title |-> "T1"] }

InitBase ==
    /\ now = 0
    /\ ticks = 0
    /\ states = << >>
    /\ lastObs = [c \in Creds |-> NoObs]
    /\ calls = 0
    /\ cache = None
    /\ pool = {}
    /\ lock = [l \in LockNames |-> Free]
    /\ tk = [t \in Tasks |-> IdleTask]
    /\ ops = 0
    /\ chg = "none"
    /\ first = NoFirst

InitShared ==
    /\ InitBase
    /\ probe = NoProbe

Init ==
    /\ InitShared
    /\ config \in InitConfigs

(***************************************************************************)
(* Steps of the commands.                                                  *)
(***************************************************************************)
\* A command is invoked; its argument checks come first.
Start(t, cmd, arg, max) ==
    /\ tk[t].pc = "idle"
    /\ \A u \in Before(t) : tk[u].pc # "idle"
    /\ ops < max
    /\ ops' = ops + 1
    /\ LET r0 == [IdleTask EXCEPT
                    !.cmd = cmd, !.arg = arg, !.saw_first = FirstReturned(t)]
       IN  tk' = [tk EXCEPT ![t] =
                IF cmd = "search" THEN Goto(r0, "cfg_read")
                ELSE IF cmd = "rate_info" THEN Goto(r0, "info_cfg")
                ELSE IF Trim(arg) = "" THEN Finish(r0, ValidationError)
                ELSE IF cmd = "set_token"
                THEN Goto([r0 EXCEPT !.api_token = arg], "inval")
                ELSE IF cmd = "set_page" THEN Goto(r0, "cfg_page")
                ELSE Goto(r0, "cfg_read")]
    /\ UNCHANGED <<probe, now, ticks, states, lastObs, calls, config, cache, pool,
                   lock, chg, first>>

\* set_notion_api_token: invalidate_cache()
Inval(t) ==
    /\ InScope(t, "inval")
    /\ cache' = None
    /\ first' = Touch(first)
    /\ lock' = Unlock(t, "inval")
    /\ tk' = [tk EXCEPT ![t] = Goto(@, "new_lookup")]
    /\ UNCHANGED <<probe, now, ticks, states, lastObs, calls, config, pool, ops, chg>>

CfgRead_mutNoPageCheck(t) ==
    /\ InScope(t, "cfg_read")
    /\ lock' = Unlock(t, "cfg_read")
    /\ LET r == [tk[t] EXCEPT
                    !.api_token = config.notion_api_token,
                    !.no_page = /\ tk[t].cmd = "append_note"
                                /\ config.notion_api_token # ""
                                /\ config.selected_page_id = ""]
       IN  tk' = [tk EXCEPT ![t] =
                IF config.notion_api_token = ""
                THEN Finish(r, ApiError(None))
                ELSE IF r.cmd = "append_note"
                THEN Goto([r EXCEPT !.page_id = config.selected_page_id],
                          "new_lookup")
                ELSE Goto(r, "new_lookup")]
    /\ UNCHANGED <<probe, now, ticks, states, lastObs, calls, config, cache, pool,
                   ops, chg, first>>

\* search_notion_pages, get_page_info, append_note: copy the token (and the
\* page id) out of the configuration
CfgRead(t) ==
    /\ InScope(t, "cfg_read")
    /\ lock' = Unlock(t, "cfg_read")
    /\ LET r == [tk[t] EXCEPT
                    !.api_token = config.notion_api_token,
                    !.no_page = /\ tk[t].cmd = "append_note"
                                /\ config.notion_api_token # ""
                                /\ config.selected_page_id = ""]
       IN  tk' = [tk EXCEPT ![t] =
                IF config.notion_api_token = ""
                THEN Finish(r, ApiError(None))
                ELSE IF r.cmd = "append_note" /\ config.selected_page_id = ""
                THEN Finish(r, ApiError(None))
                ELSE IF r.cmd = "append_note"
                THEN Goto([r EXCEPT !.page_id = config.selected_page_id],
                          "new_lookup")
                ELSE Goto(r, "new_lookup")]
    /\ UNCHANGED <<probe, now, ticks, states, lastObs, calls, config, cache, pool,
                   ops, chg, first>>

\* NotionApiClient::new: look the token up in the pool; build a client when
\* there is none
NewLookup(t) ==
    /\ InScope(t, "new_lookup")
    /\ lock' = Unlock(t, "new_lookup")
    /\ LET r == tk[t]
       IN  tk' = [tk EXCEPT ![t] =
                CASE r.api_token \in pool -> AfterNew(r)
                  [] ~ValidHeader(r.api_token) -> Finish(r, ApiError(None))
                  [] OTHER -> Goto(r, "new_insert")]
    /\ UNCHANGED <<probe, now, ticks, states, lastObs, calls, config, cache, pool,
                   ops, chg, first>>

\* NotionApiClient::new: store the client in the pool
NewInsert(t) ==
    /\ InScope(t, "new_insert")
    /\ pool' = pool \cup {tk[t].api_token}
    /\ lock' = Unlock(t, "new_insert")
    /\ tk' = [tk EXCEPT ![t] = AfterNew(@)]
    /\ UNCHANGED <<probe, now, ticks, states, lastObs, calls, config, cache, ops,
                   chg, first>>

\* check_rate_limit: should_allow_request
ChkAllow(t, f) ==
    /\ InScope(t, "chk_allow")
    /\ lock' = Unlock(t, "chk_allow")
    /\ tk' = [tk EXCEPT ![t] =
                AfterAllow(@, Mgr_should_allow_request(
                                  states, tk[t].api_token, now, f))]
    /\ UNCHANGED <<probe, now, ticks, states, lastObs, calls, config, cache, pool,
                   ops, chg, first>>

\* check_rate_limit: get_recommended_delay
ChkDelay(t, f) ==
    /\ InScope(t, "chk_delay")
    /\ lock' = Unlock(t, "chk_delay")
    /\ tk' = [tk EXCEPT ![t] =
                AfterDelay(@, Mgr_get_recommended_delay(
                                  states, tk[t].api_token, now, f))]
    /\ UNCHANGED <<probe, now, ticks, states, lastObs, calls, config, cache, pool,
                   ops, chg, first>>

ChkState_mutCount(t) ==
    /\ InScope(t, "chk_state")
    /\ lock' = Unlock(t, "chk_state")
    /\ LET r == tk[t]
           st == Mgr_get_state(states, r.api_token)
           e == IF IsSome(st)
                THEN RateLimitError(Some(r.delay \div 1000),
                                    Unwrap(st).limit, Unwrap(st).remaining)
                ELSE RateLimitError(Some(r.delay \div 1000), None, None)
       IN  tk' = [tk EXCEPT ![t] = ClientErr(r, e)]
    /\ states' = Mgr_record_rate_limit(states, tk[t].api_token, now, None,
                                        None, None)
    /\ UNCHANGED <<probe, now, ticks, lastObs, calls, config, cache, pool,
                   ops, chg, first>>

\* check_rate_limit: get_state, and the RateLimitError
ChkState(t) ==
    /\ InScope(t, "chk_state")
    /\ lock' = Unlock(t, "chk_state")
    /\ LET r == tk[t]
           st == Mgr_get_state(states, r.api_token)
           e == IF IsSome(st)
                THEN RateLimitError(Some(r.delay \div 1000),
                                    Unwrap(st).limit, Unwrap(st).remaining)
                ELSE RateLimitError(Some(r.delay \div 1000), None, None)
       IN  tk' = [tk EXCEPT ![t] = ClientErr(r, e)]
    /\ UNCHANGED <<probe, now, ticks, states, lastObs, calls, config, cache, pool,
                   ops, chg, first>>

\* search_pages: the cache check
CacheLookup(t) ==
    /\ InScope(t, "cache_lookup")
    /\ lock' = Unlock(t, "cache_lookup")
    /\ LET r == tk[t]
           hit == CacheValid(cache, now)
           first_after == chg = "changed"
           follows == first.valid /\ r.saw_first
           lk == [done |-> TRUE, hit |-> hit, first_after |-> first_after,
                  follows |-> follows,
                  cred_changed |-> first.cred_changed,
                  touched |-> first.touched,
                  within |-> now - first.put_at < CacheDurationMs,
                  same |-> hit /\ Unwrap(cache).data = first.list]
           r1 == [r EXCEPT !.lk = lk]
           tk1 == [tk EXCEPT ![t] =
                       IF hit THEN SearchOk(r1, Unwrap(cache).data)
                       ELSE Goto(r1, "chk_allow")]
       IN  /\ tk' = IF follows THEN Unfollow(tk1, t) ELSE tk1
           /\ chg' = IF first_after THEN "looked" ELSE chg
           /\ first' = IF follows THEN NoFirst ELSE first
    /\ UNCHANGED <<probe, now, ticks, states, lastObs, calls, config, cache, pool,
                   ops>>

RecvFail_mutClearCache(t) ==
    /\ tk[t].pc = "await_resp"
    /\ lock[LockOf("await_resp")] = Free
    /\ lock' = RecordLock(t, SendErrorRecords)
    /\ states' = Recorded(states, SendErrorRecords, tk[t].api_token, now,
                          NoHeaders)
    /\ lastObs' = History(lastObs, states, SendErrorRecords, tk[t].api_token,
                          now, NoHeaders)
    /\ tk' = [tk EXCEPT ![t] = OnSendError(@)]
    /\ cache' = None
    /\ UNCHANGED <<probe, now, ticks, calls, config, pool, ops, chg, first>>

\* send().await fails: a timeout or a connect error
RecvFail(t) ==
    /\ tk[t].pc = "await_resp"
    /\ lock[LockOf("await_resp")] = Free
    /\ lock' = RecordLock(t, SendErrorRecords)
    /\ states' = Recorded(states, SendErrorRecords, tk[t].api_token, now,
                          NoHeaders)
    /\ lastObs' = History(lastObs, states, SendErrorRecords, tk[t].api_token,
                          now, NoHeaders)
    /\ tk' = [tk EXCEPT ![t] = OnSendError(@)]
    /\ UNCHANGED <<probe, now, ticks, calls, config, cache, pool, ops, chg, first>>

\* send().await returns a response: handle_rate_limit on 429, an error on
\* another non-2xx status, process_response_headers otherwise
Recv(t, status, raw) ==
    /\ tk[t].pc = "await_resp"
    /\ lock[LockOf("await_resp")] = Free
    /\ LET hdr == extract_rate_limit_headers(raw, now)
           what == ResponseRecords(status)
       IN  /\ lock' = RecordLock(t, what)
           /\ states' = Recorded(states, what, tk[t].api_token, now, hdr)
           /\ lastObs' = History(lastObs, states, what, tk[t].api_token, now,
                                 hdr)
           /\ tk' = [tk EXCEPT ![t] = OnResponse(@, status, raw, hdr)]
    /\ UNCHANGED <<probe, now, ticks, calls, config, cache, pool, ops, chg, first>>

\* search_pages: res.json().await, the extraction of the pages, and the
\* pages stored in the cache
SearchBody(t, body) ==
    /\ tk[t].pc = "await_body"
    /\ GoodBody(body) => lock[LockOf("await_body")] = Free
    /\ LET r == tk[t]
           pages == ExtractPages(Unwrap(body.results))
       IN  IF GoodBody(body)
           THEN /\ lock' = Unlock(t, "await_body")
                /\ cache' = CachePut(pages, now, r.api_token)
                /\ first' = IF first.valid THEN Touch(first)
                            ELSE [valid |-> TRUE, list |-> pages,
                                  put_at |-> now, owner |-> t,
                                  cred_changed |-> FALSE, touched |-> FALSE]
                /\ tk' = [tk EXCEPT ![t] = OnSearchBody(r, body)]
           ELSE /\ tk' = [tk EXCEPT ![t] = OnSearchBody(r, body)]
                /\ UNCHANGED <<lock, cache, first>>
    /\ UNCHANGED <<probe, now, ticks, states, lastObs, calls, config, pool, ops, chg>>

\* append_note_to_page: res.json().await on a non-2xx response
ErrBody(t) ==
    /\ tk[t].pc = "await_errbody"
    /\ tk' = [tk EXCEPT ![t] = ClientErr(@, ApiError(Some(@.status)))]
    /\ UNCHANGED <<probe, now, ticks, states, lastObs, calls, config, cache, pool,
                   lock, ops, chg, first>>

\* set_notion_api_token: store the verified token and save the configuration
CfgStore(t, save_ok) ==
    /\ InScope(t, "cfg_store")
    /\ lock' = Unlock(t, "cfg_store")
    /\ config' = [config EXCEPT !.notion_api_token = tk[t].arg]
    /\ LET changed == config.notion_api_token # tk[t].arg
       IN  /\ chg' = IF changed THEN "changed" ELSE chg
           /\ first' = IF changed /\ first.valid
                       THEN [first EXCEPT !.cred_changed = TRUE] ELSE first
           /\ tk' = [tk EXCEPT ![t] =
                       IF save_ok THEN EmitThen(@, Ok(<<TRUE>>))
                       ELSE Finish(@, ConfigError)]
    /\ UNCHANGED <<probe, now, ticks, states, lastObs, calls, cache, pool, ops>>

\* emit_rate_limit_event: get_state
EmitState(t) ==
    /\ InScope(t, "emit_state")
    /\ lock' = Unlock(t, "emit_state")
    /\ states' = AfterGetState(states, tk[t].api_token, now)
    /\ tk' = [tk EXCEPT ![t] = Goto(@, "emit_allow")]
    /\ UNCHANGED <<probe, now, ticks, lastObs, calls, config, cache, pool,
                   ops, chg, first>>

\* window.emit, and the command returns its result
Emitted(r) == Finish([r EXCEPT !.emitted = @ + 1], r.pending)

\* emit_rate_limit_event: should_allow_request
EmitAllow(t, f) ==
    /\ InScope(t, "emit_allow")
    /\ lock' = Unlock(t, "emit_allow")
    /\ LET r == tk[t]
           is_limited == ~Mgr_should_allow_request(states, r.api_token, now, f)
       IN  tk' = [tk EXCEPT ![t] =
                IF is_limited THEN Goto(r, "emit_delay") ELSE Emitted(r)]
    /\ UNCHANGED <<probe, now, ticks, states, lastObs, calls, config, cache, pool,
                   ops, chg, first>>

\* emit_rate_limit_event: get_recommended_delay
EmitDelay(t, f) ==
    /\ InScope(t, "emit_delay")
    /\ lock' = Unlock(t, "emit_delay")
    /\ tk' = [tk EXCEPT ![t] = Emitted(@)]
    /\ UNCHANGED <<probe, now, ticks, states, lastObs, calls, config, cache, pool,
                   ops, chg, first>>

\* set_selected_page_id: store the page id and title, save the configuration
CfgSetPage(t, page_title, save_ok) ==
    /\ InScope(t, "cfg_page")
    /\ lock' = Unlock(t, "cfg_page")
    /\ config' = [config EXCEPT !.selected_page_id = tk[t].arg,
                                !.selected_page_title = page_title]
    /\ tk' = [tk EXCEPT ![t] =
                IF save_ok THEN Finish(@, Ok(<< >>))
                ELSE Finish(@, ConfigError)]
    /\ UNCHANGED <<probe, now, ticks, states, lastObs, calls, cache, pool, ops,
                   chg, first>>

\* struct RateLimitInfo, from the registry's entry for the token
RateLimitInfo(st, t, is_limited, retry_after) ==
    [limit |-> IF IsSome(st) THEN Unwrap(st).limit ELSE None,
     remaining |-> IF IsSome(st) THEN Unwrap(st).remaining ELSE None,
     reset_at |-> IF IsSome(st) /\ IsSome(time_until_reset(Unwrap(st), t))
                  THEN Some(WallSecs(t)
                            + Unwrap(time_until_reset(Unwrap(st), t)))
                  ELSE None,
     is_limited |-> is_limited,
     retry_after |-> retry_after]

\* fetch_rate_limit_info: lock the configuration, which stays locked until
\* the function returns, and read the token
InfoCfg(t) ==
    /\ InScope(t, "info_cfg")
    /\ lock' = Locked(lock, "config", t)
    /\ tk' = [tk EXCEPT ![t] =
                Goto([@ EXCEPT !.api_token = config.notion_api_token],
                     "info_allow")]
    /\ UNCHANGED <<probe, now, ticks, states, lastObs, calls, config, cache, pool,
                   ops, chg, first>>

\* fetch_rate_limit_info: should_allow_request
InfoAllow(t, f) ==
    /\ InScope(t, "info_allow")
    /\ lock' = Unlock(t, "info_allow")
    /\ LET r == tk[t]
           is_limited == ~Mgr_should_allow_request(states, r.api_token, now, f)
       IN  tk' = [tk EXCEPT ![t] =
                Goto([r EXCEPT !.is_limited = is_limited],
                     IF is_limited THEN "info_delay" ELSE "info_state")]
    /\ UNCHANGED <<probe, now, ticks, states, lastObs, calls, config, cache, pool,
                   ops, chg, first>>

\* fetch_rate_limit_info: get_recommended_delay
InfoDelay(t, f) ==
    /\ InScope(t, "info_delay")
    /\ lock' = Unlock(t, "info_delay")
    /\ LET r == tk[t]
           delay == Mgr_get_recommended_delay(states, r.api_token, now, f)
       IN  tk' = [tk EXCEPT ![t] =
                Goto([r EXCEPT !.retry_after =
                        IF delay # 0 THEN Some(delay \div 1000) ELSE None],
                     "info_state")]
    /\ UNCHANGED <<probe, now, ticks, states, lastObs, calls, config, cache, pool,
                   ops, chg, first>>

InfoState_mutKeepConfig(t) ==
    /\ InScope(t, "info_state")
    /\ lock' = Unlock(t, "info_state")
    /\ states' = AfterGetState(states, tk[t].api_token, now)
    /\ LET r == tk[t]
           st == Mgr_get_state(states, r.api_token)
       IN  tk' = [tk EXCEPT ![t] =
                Finish(r, Ok(<<RateLimitInfo(st, now, r.is_limited,
                                             r.retry_after)>>))]
    /\ UNCHANGED <<probe, now, ticks, lastObs, calls, config, cache, pool,
                   ops, chg, first>>

\* fetch_rate_limit_info: get_state, the RateLimitInfo is returned and the
\* configuration guard dropped
InfoState(t) ==
    /\ InScope(t, "info_state")
    /\ lock' = Drop(Unlock(t, "info_state"), "config")
    /\ states' = AfterGetState(states, tk[t].api_token, now)
    /\ LET r == tk[t]
           st == Mgr_get_state(states, r.api_token)
       IN  tk' = [tk EXCEPT ![t] =
                Finish(r, Ok(<<RateLimitInfo(st, now, r.is_limited,
                                             r.retry_after)>>))]
    /\ UNCHANGED <<probe, now, ticks, lastObs, calls, config, cache, pool,
                   ops, chg, first>>

\* The command's result has been delivered; the task is free again.
Return(t) ==
    /\ tk[t].pc = "done"
    /\ tk' = [tk EXCEPT ![t] = IdleTask]
    /\ UNCHANGED <<probe, now, ticks, states, lastObs, calls, config, cache, pool,
                   lock, ops, chg, first>>

\* Time passes.
Tick(d) ==
    /\ ticks < MaxTicks
    /\ now' = now + d
    /\ ticks' = ticks + 1
    /\ UNCHANGED <<probe, states, lastObs, calls, config, cache, pool, lock, tk,
                   ops, chg, first>>

Next ==
    \/ \E t \in Tasks, a \in TokenInputs : Start(t, "set_token", a, MaxOps)
    \/ \E t \in Tasks : Start(t, "search", "", MaxOps)
    \/ \E t \in Tasks, a \in PageIdInputs :
            Start(t, "get_page_info", a, MaxOps)
    \/ \E t \in Tasks, a \in NoteInputs : Start(t, "append_note", a, MaxOps)
    \/ \E t \in Tasks : Inval(t)
    \/ \E t \in Tasks : CfgRead(t)
    \/ \E t \in Tasks : NewLookup(t)
    \/ \E t \in Tasks : NewInsert(t)
    \/ \E t \in Tasks, f \in JitterFactors : ChkAllow(t, f)
    \/ \E t \in Tasks, f \in JitterFactors : ChkDelay(t, f)
    \/ \E t \in Tasks : ChkState(t)
    \/ \E t \in Tasks : CacheLookup(t)
    \/ \E t \in Tasks : RecvFail(t)
    \/ \E t \in Tasks, s \in Statuses, h \in RawHeaders : Recv(t, s, h)
    \/ \E t \in Tasks, b \in SearchBodies : SearchBody(t, b)
    \/ \E t \in Tasks : ErrBody(t)
    \/ \E t \in Tasks, ok \in BOOLEAN : CfgStore(t, ok)
    \/ \E t \in Tasks : EmitState(t)
    \/ \E t \in Tasks, f \in JitterFactors : EmitAllow(t, f)
    \/ \E t \in Tasks, f \in JitterFactors : EmitDelay(t, f)
    \/ \E t \in Tasks : Return(t)
    \/ \E d \in TickSteps : Tick(d)

Spec == Init /\ [][Next]_vars

(***************************************************************************)
(* SpecListing: listing calls and credential changes only, from a          *)
(* configured application, over a network that answers every request with  *)
(* 200 or 429, with the clock moving by the cache's lifetime.               *)
(***************************************************************************)
ListingTokens == {"B", "BAD"}
ListingStatuses == {200, 429}
ListingHeaders == {h \in RawHeaders : h.reset_in = Some(60)}
ListingBodies == {b \in SearchBodies : GoodBody(b)}
ListingTickSteps == {CacheDurationMs}

InitListing ==
    /\ InitShared
    /\ config \in {c \in InitConfigs : c.notion_api_token # ""}

NextListing ==
    \/ \E t \in Tasks, a \in ListingTokens :
            Start(t, "set_token", a, MaxListingOps)
    \/ \E t \in Tasks : Start(t, "search", "", MaxListingOps)
    \/ \E t \in Tasks : Inval(t)
    \/ \E t \in Tasks : CfgRead(t)
    \/ \E t \in Tasks : NewLookup(t)
    \/ \E t \in Tasks : NewInsert(t)
    \/ \E t \in Tasks, f \in JitterFactors : ChkAllow(t, f)
    \/ \E t \in Tasks, f \in JitterFactors : ChkDelay(t, f)
    \/ \E t \in Tasks : ChkState(t)
    \/ \E t \in Tasks : CacheLookup(t)
    \/ \E t \in Tasks, st \in ListingStatuses, h \in ListingHeaders :
            Recv(t, st, h)
    \/ \E t \in Tasks, b \in ListingBodies : SearchBody(t, b)
    \/ \E t \in Tasks, ok \in BOOLEAN : CfgStore(t, ok)
    \/ \E t \in Tasks : EmitState(t)
    \/ \E t \in Tasks, f \in JitterFactors : EmitAllow(t, f)
    \/ \E t \in Tasks, f \in JitterFactors : EmitDelay(t, f)
    \/ \E t \in Tasks : Return(t)
    \/ \E d \in ListingTickSteps : Tick(d)

SpecListing == InitListing /\ [][NextListing]_vars

(***************************************************************************)
(* SpecRL: the manager driven directly, any call on any credential at any  *)
(* time.                                                                   *)
(***************************************************************************)
ResetSecondsArgs == {None, Some(30)}
RemainingArgs == {None, Some(0), Some(1)}
LimitArgs == {None, Some(3)}

InitRL ==
    /\ InitShared
    /\ config \in {c \in InitConfigs : c.notion_api_token = ""}

RL_RecordSuccess(c) ==
    /\ calls < MaxCalls
    /\ states' = Mgr_record_success(states, c, now)
    /\ lastObs' = ObserveSuccess(lastObs, states, c, now)
    /\ calls' = calls + 1
    /\ UNCHANGED <<now, ticks>>
    /\ UNCHANGED opvars

RL_RecordRateLimit(c, rs, rem, lim) ==
    /\ calls < MaxCalls
    /\ states' = Mgr_record_rate_limit(states, c, now, rs, rem, lim)
    /\ lastObs' = ObserveRateLimit(lastObs, states, c, now, rs, rem)
    /\ calls' = calls + 1
    /\ UNCHANGED <<now, ticks>>
    /\ UNCHANGED opvars

RL_Tick(d) ==
    /\ ticks < MaxTicksRL
    /\ now' = now + d
    /\ ticks' = ticks + 1
    /\ UNCHANGED <<states, lastObs, calls>>
    /\ UNCHANGED opvars

NextRL ==
    \/ \E c \in Creds : RL_RecordSuccess(c)
    \/ \E c \in Creds, rs \in ResetSecondsArgs, rem \in RemainingArgs,
          lim \in LimitArgs : RL_RecordRateLimit(c, rs, rem, lim)
    \/ \E d \in RLTickSteps : RL_Tick(d)

SpecRL == InitRL /\ [][NextRL]_vars

(***************************************************************************)
(* Claims about the rate-limit manager, checked under SpecRL.              *)
(***************************************************************************)
\* The credentials for which record_success or record_rate_limit has run.
Observed == {c \in Creds : lastObs[c].kind # "none"}

\* C1: for a credential on which neither record_success nor
\* record_rate_limit has ever run, should_allow_request is true and
\* get_recommended_delay is 0, whatever was recorded for other credentials.
C1_UnseenAllowed ==
    \A c \in Creds \ Observed : \A f \in JitterFactors :
        /\ Mgr_should_allow_request(states, c, now, f)
        /\ Mgr_get_recommended_delay(states, c, now, f) = 0

\* C1 witness: one credential is limited and denied while another has never
\* been observed.
C1_Witness ==
    \E c \in Creds, d \in Creds :
        /\ c \notin Observed
        /\ d \in Observed
        /\ states[d].is_rate_limited
        /\ \A f \in JitterFactors :
               ~Mgr_should_allow_request(states, d, now, f)

\* C3 as stated: after record_rate_limit(reset_seconds = 30, remaining,
\* limit) with any remaining and limit, time_until_reset is at most 30 and
\* should_allow_request is false until 30 s have elapsed or record_success
\* has run.
C3_Original ==
    \A c \in Creds :
        (IsSome(lastObs[c].rl30) /\ now - Unwrap(lastObs[c].rl30) < 30000)
        => /\ IsSome(Mgr_time_until_reset(states, c, now))
           /\ Unwrap(Mgr_time_until_reset(states, c, now)) <= 30
           /\ \A f \in JitterFactors :
                  ~Mgr_should_allow_request(states, c, now, f)

\* The latest observation of c is record_rate_limit(30, Some(0), _).
LastIsRl30Zero(c) ==
    /\ lastObs[c].kind = "rate_limit"
    /\ lastObs[c].reset = Some(30)
    /\ lastObs[c].remaining = Some(0)

\* C3 amended: after record_rate_limit(reset_seconds = 30, remaining = 0,
\* limit), and until another observation is recorded for the credential,
\* time_until_reset is at most 30, and should_allow_request is false as long
\* as 30 s have not elapsed.
C3_Rl30ZeroBlocks ==
    \A c \in Creds :
        LastIsRl30Zero(c)
        => /\ IsSome(Mgr_time_until_reset(states, c, now))
           /\ Unwrap(Mgr_time_until_reset(states, c, now)) <= 30
           /\ (now - lastObs[c].at < 30000
               => \A f \in JitterFactors :
                      ~Mgr_should_allow_request(states, c, now, f))

\* C3 witness: such a 429 was recorded, time has passed beyond the backoff
\* delay but not yet 30 s.
C3_Witness ==
    \E c \in Creds :
        /\ LastIsRl30Zero(c)
        /\ now - lastObs[c].at >= 3000
        /\ now - lastObs[c].at < 30000

\* C6: once record_success has run on a credential's state, from any prior
\* state, consecutive_rate_limits is 0 and is_rate_limited is false in every
\* state a reader of the registry can see until the next observation.
C6_SuccessClears ==
    \A c \in Creds :
        lastObs[c].kind = "success"
        => /\ c \in DOMAIN states
           /\ states[c].consecutive_rate_limits = 0
           /\ ~states[c].is_rate_limited

\* C6 witness: record_success ran on a state that was limited with a counter
\* of at least 2.
C6_Witness ==
    \E c \in Creds :
        /\ lastObs[c].kind = "success"
        /\ lastObs[c].prev_limited
        /\ lastObs[c].prev_n >= 2

(***************************************************************************)
(* The client and the commands.                                            *)
(***************************************************************************)
\* C2: in every interleaving, an operation whose admission check's
\* should_allow_request returned false sends no HTTP request and returns a
\* RateLimitError.
C2_DeniedSendsNothing ==
    \A t \in Tasks :
        tk[t].denied
        => /\ tk[t].sent = 0
           /\ tk[t].pc = "done" => tk[t].err.kind = "RateLimitError"

\* C4: every response received updates the registry: record_rate_limit for
\* status 429 and record_success for any other status, non-2xx included.
C4_EveryResponseRecorded ==
    \A t \in Tasks :
        tk[t].status # 0
        => IF tk[t].status = 429 THEN tk[t].recorded = "rate_limit"
           ELSE tk[t].recorded = "success"

\* The operation of task t received a 429 whose headers say remaining = 0
\* and a reset 60 s ahead.
Got429Reset60(t) ==
    /\ tk[t].status = 429
    /\ IsSome(tk[t].raw)
    /\ Unwrap(tk[t].raw).reset_in = Some(60)
    /\ Unwrap(tk[t].raw).remaining = Some(0)

\* The error such an operation returns: retry_after 60 and the headers'
\* limit and remaining.
Returns60(t) ==
    tk[t].err = RateLimitError(Some(60), Unwrap(tk[t].raw).limit, Some(0))

\* C5 as stated: an operation that receives a 429 with remaining = 0 and a
\* reset 60 s ahead returns RateLimitError with retry_after 60 and the
\* headers' limit and remaining, and from then on should_allow_request for
\* the credential is false until 60 s have elapsed or a success is recorded.
C5_Original ==
    /\ \A t \in Tasks : Got429Reset60(t) => Returns60(t)
    /\ \A c \in Creds :
           (IsSome(lastObs[c].rl60z) /\ now - Unwrap(lastObs[c].rl60z) < 60000)
           => \A f \in JitterFactors :
                  ~Mgr_should_allow_request(states, c, now, f)

\* The latest response recorded for c is such a 429.
LastIsRl60Zero(c) ==
    /\ lastObs[c].kind = "rate_limit"
    /\ lastObs[c].reset = Some(60)
    /\ lastObs[c].remaining = Some(0)

\* C5 amended: the operation returns that RateLimitError, and
\* should_allow_request for the credential is false until 60 s have elapsed
\* or another response, a success or a further 429, is recorded for it.
C5_Rl60ZeroBlocks ==
    /\ \A t \in Tasks : Got429Reset60(t) => Returns60(t)
    /\ \A c \in Creds :
           (LastIsRl60Zero(c) /\ now - lastObs[c].at < 60000)
           => \A f \in JitterFactors :
                  ~Mgr_should_allow_request(states, c, now, f)

\* C5 witness: an operation has returned after such a 429, nothing has been
\* recorded for the credential since, and time has passed beyond the
\* backoff delay.
C5_Witness ==
    \E t \in Tasks, c \in Creds :
        /\ tk[t].pc = "done"
        /\ Got429Reset60(t)
        /\ LastIsRl60Zero(c)
        /\ now - lastObs[c].at >= 3000

\* C7: a step in which send() fails leaves the registry as it was.
C7_TransportFailureFrame ==
    [][\A t \in Tasks :
          (tk[t].pc = "await_resp" /\ tk'[t].err.kind = "NetworkError")
          => states' = states]_vars

\* C7 witness: a send() has failed at a time when the registry holds a
\* limited credential.
C7_Witness ==
    \E t \in Tasks, c \in DOMAIN states :
        /\ tk[t].err.kind = "NetworkError"
        /\ states[c].is_rate_limited

\* C8: a task suspended on a network call owns none of the four mutexes.
C8_NoLockAcrossAwait ==
    \A t \in Tasks : tk[t].pc \in AwaitPcs => Held(t) = {}

\* C8 witness: both tasks are suspended on the network, each having gone
\* through the configuration, pool and registry scopes.
C8_Witness ==
    \A t \in Tasks : tk[t].pc \in AwaitPcs /\ tk[t].api_token # ""

\* C9: the first listing call to look the cache up after
\* set_notion_api_token changed the credential misses it.
C9_FirstListingMisses ==
    \A t \in Tasks :
        (tk[t].lk.done /\ tk[t].lk.first_after) => ~tk[t].lk.hit

\* A listing call of task t looked the cache up, having started after the
\* previous fetched listing returned, less than 5 minutes after that list
\* was stored and with no credential change since.
FollowsInTime(t) ==
    /\ tk[t].lk.done
    /\ tk[t].lk.follows
    /\ tk[t].lk.within
    /\ ~tk[t].lk.cred_changed

\* The call is answered from the cache with the first call's list and sends
\* no request.
ServedSame(t) ==
    /\ tk[t].lk.hit
    /\ tk[t].lk.same
    /\ tk[t].sent = 0

\* C10 as stated: of two listing calls made one after the other within 5
\* minutes with no credential change between them, the first succeeding,
\* the second sends no request and returns the first one's list.
C10_Original ==
    \A t \in Tasks : FollowsInTime(t) => ServedSame(t)

\* C10 amended: the same, provided no other operation wrote or cleared the
\* cache slot between the first call's store and the second call's lookup.
C10_UntouchedServedSame ==
    \A t \in Tasks :
        (FollowsInTime(t) /\ ~tk[t].lk.touched) => ServedSame(t)

\* C10 witness: the second call has returned the cached list.
C10_Witness ==
    \E t \in Tasks :
        /\ FollowsInTime(t)
        /\ ~tk[t].lk.touched
        /\ tk[t].pc = "done"
        /\ tk[t].result.kind = "Ok"
        /\ tk[t].result.value # << >>

(***************************************************************************)
(* SpecBackoff: the backoff computation on its own.  A rate-limited state  *)
(* with n consecutive 429s and no reset time is asked for its delay and    *)
(* for admission, for every jitter factor in thousandths and at several    *)
(* elapsed times given in thousandths of the base backoff.                 *)
(***************************************************************************)
MaxCount == 12
AllJitterFactors == 750..1249
ElapsedPerMille == {0, 749, 1250}

BackoffState(n) ==
    [DefaultState(0) EXCEPT !.consecutive_rate_limits = n,
                            !.is_rate_limited = TRUE]

InitBackoff ==
    /\ InitBase
    /\ config \in {c \in InitConfigs : c.notion_api_token = ""}
    /\ \E n \in 0..MaxCount, f \in AllJitterFactors, e \in ElapsedPerMille :
            probe = [fn |-> "backoff", n |-> n, f |-> f,
                     elapsed |-> (BackoffMs(n) * e) \div 1000,
                     delay |-> None, allowed |-> None]

\* get_recommended_delay on the state
Backoff_Delay ==
    /\ probe.fn = "backoff"
    /\ probe.delay = None
    /\ probe' = [probe EXCEPT !.delay =
                    Some(get_recommended_delay(BackoffState(probe.n),
                                               probe.elapsed, probe.f))]
    /\ UNCHANGED <<rlvars, config, cache, pool, lock, tk, ops, chg, first>>

\* backoff_allows_request on the state
Backoff_Allows ==
    /\ probe.fn = "backoff"
    /\ probe.allowed = None
    /\ probe' = [probe EXCEPT !.allowed =
                    Some(backoff_allows_request(BackoffState(probe.n),
                                                probe.elapsed, probe.f))]
    /\ UNCHANGED <<rlvars, config, cache, pool, lock, tk, ops, chg, first>>

NextBackoff ==
    \/ Backoff_Delay
    \/ Backoff_Allows

SpecBackoff == InitBackoff /\ [][NextBackoff]_vars

\* C18: the base backoff computed for n consecutive 429s is
\* min(1000 * 2^n, 300000) ms, it never decreases as n grows and it stays at
\* the cap from n = 10 on; the jittered delay in use lies between 0.75 and
\* 1.25 times the base: the recommended delay is in that interval, admission
\* is refused before 0.75 times the base has elapsed and granted once 1.25
\* times the base has.
C18_BackoffMonotoneJitterBounded ==
    probe.fn = "backoff" =>
        LET n == probe.n
            b == BackoffMs(n)
        IN  /\ b = Min(1000 * Pow2(n), 300000)
            /\ \A m \in 0..n : BackoffMs(m) <= b
            /\ n >= 10 => b = 300000
            /\ IsSome(probe.delay) =>
                    /\ 4 * Unwrap(probe.delay) >= 3 * b
                    /\ 4 * Unwrap(probe.delay) <= 5 * b
            /\ (IsSome(probe.allowed) /\ n > 0) =>
                    /\ 4 * probe.elapsed < 3 * b => ~Unwrap(probe.allowed)
                    /\ 4 * probe.elapsed >= 5 * b => Unwrap(probe.allowed)

\* A capped base backoff whose jittered delay exceeds the cap, and an
\* admission refused just under 0.75 times the base.
C18_Witness ==
    /\ probe.fn = "backoff"
    /\ probe.n >= 9
    /\ IsSome(probe.delay)
    /\ Unwrap(probe.delay) > MaxBackoffMs
    /\ probe.elapsed = 224700
    /\ probe.allowed = Some(FALSE)

(***************************************************************************)
(* AppError::recovery_action (error.rs).  An error is its kind, and the    *)
(* fields the choice of action reads: the status code of a NotionApiError  *)
(* and the offline hint of a NetworkError.                                 *)
(***************************************************************************)
ErrorKinds ==
    {"ConfigError", "NotionApiError", "RateLimitError", "HotkeyError",
     "FsError", "NetworkError", "OfflineError", "ValidationError",
     "UnknownError"}

\* enum RecoveryAction
RecoveryActions ==
    {"Retry", "RetryLater", "OpenSettings", "CheckConnection",
     "CheckPageAccess", "Restart", "None"}

AppError(kind, status_code, is_offline) ==
    [kind |-> kind, status_code |-> status_code, is_offline |-> is_offline]

NotionApiAction_mutNarrow5xx(status_code) ==
    CASE status_code \in {Some(401), Some(403)} -> "OpenSettings"
      [] status_code = Some(404) -> "OpenSettings"
      [] status_code = Some(429) -> "RetryLater"
      [] IsSome(status_code) /\ Unwrap(status_code) \in 500..598
            -> "RetryLater"
      [] OTHER -> "OpenSettings"

\* match status_code { ... } of the NotionApiError arm
NotionApiAction(status_code) ==
    CASE status_code \in {Some(401), Some(403)} -> "OpenSettings"
      [] status_code = Some(404) -> "OpenSettings"
      [] status_code = Some(429) -> "RetryLater"
      [] IsSome(status_code) /\ Unwrap(status_code) \in 500..599
            -> "RetryLater"
      [] OTHER -> "OpenSettings"

recovery_action(e) ==
    CASE e.kind = "ConfigError" -> "OpenSettings"
      [] e.kind = "NotionApiError" -> NotionApiAction(e.status_code)
      [] e.kind = "RateLimitError" -> "RetryLater"
      [] e.kind = "HotkeyError" -> "OpenSettings"
      [] e.kind = "FsError" -> "Restart"
      [] e.kind = "NetworkError" ->
            IF e.is_offline THEN "CheckConnection" ELSE "Retry"
      [] e.kind = "OfflineError" -> "None"
      [] e.kind = "ValidationError" -> "None"
      [] e.kind = "UnknownError" -> "Restart"

(***************************************************************************)
(* SpecRecovery: recovery_action applied to an error of every kind, a      *)
(* NotionApiError with no status code or any status code of a range around *)
(* the HTTP error classes, a NetworkError with either offline hint.        *)
(***************************************************************************)
StatusCodeInputs == {None} \cup {Some(s) : s \in 395..605}

ErrorInputs ==
    {AppError("NotionApiError", s, FALSE) : s \in StatusCodeInputs}
    \cup {AppError("NetworkError", None, o) : o \in BOOLEAN}
    \cup {AppError(k, None, FALSE) :
            k \in ErrorKinds \ {"NotionApiError", "NetworkError"}}

InitRecovery ==
    /\ InitBase
    /\ config \in {c \in InitConfigs : c.notion_api_token = ""}
    /\ \E e \in ErrorInputs :
            probe = [fn |-> "recovery", err |-> e, action |-> None]

Recovery_Action ==
    /\ probe.fn = "recovery"
    /\ probe.action = None
    /\ probe' = [probe EXCEPT !.action = Some(recovery_action(probe.err))]
    /\ UNCHANGED <<rlvars, config, cache, pool, lock, tk, ops, chg, first>>

NextRecovery == Recovery_Action

SpecRecovery == InitRecovery /\ [][NextRecovery]_vars

\* The actions the specification lists.
ListedActions ==
    {"Retry", "RetryLater", "OpenSettings", "CheckConnection", "Restart"}

\* The rule for a NotionApiError: open settings for 401, 403 and 404, retry
\* later for 429 and 500..599.
ApiErrorRule ==
    (probe.err.kind = "NotionApiError" /\ IsSome(probe.err.status_code)) =>
        LET s == Unwrap(probe.err.status_code)
        IN  /\ s \in {401, 403, 404} => probe.action = Some("OpenSettings")
            /\ (s = 429 \/ (s >= 500 /\ s <= 599))
                    => probe.action = Some("RetryLater")

\* C19 as stated: the action returned for any error is one of retry now,
\* retry later, open settings, check connection, restart, and follows the
\* status-code rule for a NotionApiError.
C19_Original ==
    (probe.fn = "recovery" /\ IsSome(probe.action)) =>
        /\ Unwrap(probe.action) \in ListedActions
        /\ ApiErrorRule

\* C19: recovery_action returns one action for every error; it is "no
\* action" exactly for an OfflineError or a ValidationError and one of retry
\* now, retry later, open settings, check connection, restart for every
\* other kind; for a NotionApiError it is open settings when the status is
\* 401, 403 or 404 and retry later when it is 429 or 500..599.
C19_ActionPerKind ==
    (probe.fn = "recovery" /\ IsSome(probe.action)) =>
        /\ Unwrap(probe.action) \in ListedActions \cup {"None"}
        /\ Unwrap(probe.action) = "None"
                <=> probe.err.kind \in {"OfflineError", "ValidationError"}
        /\ ApiErrorRule

\* A NotionApiError with status 599 got retry later.
C19_Witness ==
    /\ probe.fn = "recovery"
    /\ probe.err.kind = "NotionApiError"
    /\ probe.err.status_code = Some(599)
    /\ probe.action = Some("RetryLater")

(***************************************************************************)
(* The request body of append_note_to_page (notion.rs).  A string is the   *)
(* sequence of its characters; the local wall clock is a record of its     *)
(* calendar fields.                                                        *)
(***************************************************************************)
DigitChars == <<"0", "1", "2", "3", "4", "5", "6", "7", "8", "9">>

RECURSIVE Decimal(_)
\* "{}" of a non-negative integer
Decimal(n) ==
    IF n < 10 THEN <<DigitChars[n + 1]>>
    ELSE Decimal(n \div 10) \o <<DigitChars[(n % 10) + 1]>>

Pad2_mutNoPad(n) == Decimal(n)

\* "{:02}" of a non-negative integer
Pad2(n) == IF n < 10 THEN <<"0">> \o Decimal(n) ELSE Decimal(n)

\* match now.month() { 1 => "Jan", ... , _ => "Unknown" }
MonthAbbrev(m) ==
    CASE m = 1 -> <<"J", "a", "n">>
      [] m = 2 -> <<"F", "e", "b">>
      [] m = 3 -> <<"M", "a", "r">>
      [] m = 4 -> <<"A", "p", "r">>
      [] m = 5 -> <<"M", "a", "y">>
      [] m = 6 -> <<"J", "u", "n">>
      [] m = 7 -> <<"J", "u", "l">>
      [] m = 8 -> <<"A", "u", "g">>
      [] m = 9 -> <<"S", "e", "p">>
      [] m = 10 -> <<"O", "c", "t">>
      [] m = 11 -> <<"N", "o", "v">>
      [] m = 12 -> <<"D", "e", "c">>
      [] OTHER -> <<"U", "n", "k", "n", "o", "w", "n">>

Timestamp_mutTimeFirst(c) ==
    <<"[">> \o Pad2(c.day) \o <<" ">> \o MonthAbbrev(c.month) \o <<" ">>
        \o Pad2(c.hour) \o <<":">> \o Pad2(c.minute) \o <<":">>
        \o Pad2(c.second) \o <<" ">> \o Pad2(c.year % 100) \o <<"]">>

\* format!("[{:02} {} {:02}, {:02}:{:02}:{:02}]", day, month, year % 100,
\*         hour, minute, second)
Timestamp(c) ==
    <<"[">> \o Pad2(c.day) \o <<" ">> \o MonthAbbrev(c.month) \o <<" ">>
        \o Pad2(c.year % 100) \o <<",", " ">>
        \o Pad2(c.hour) \o <<":">> \o Pad2(c.minute) \o <<":">>
        \o Pad2(c.second) \o <<"]">>

\* format!("{} {}", timestamp, note_text)
NoteContent(c, note_text) == Timestamp(c) \o <<" ">> \o note_text

\* json!({ "children": [ { paragraph block } ] })
AppendBody(c, note_text) ==
    [children |->
        << [object |-> "block", type |-> "paragraph",
            rich_text |->
                << [type |-> "text", content |-> NoteContent(c, note_text),
                    bold |-> TRUE, color |-> "default"] >>] >>]

(***************************************************************************)
(* SpecStamp: the request body built for clock values and note texts.      *)
(***************************************************************************)
ClockInputs ==
    [day : {1, 5, 10, 31}, month : 1..12, year : {2009, 2024},
     hour : {0, 14}, minute : {3, 59}, second : {9, 30}]

NoteTexts ==
    { <<"B", "u", "y", " ", "m", "i", "l", "k">>, <<" ", "[", "x", " ">> }

InitStamp ==
    /\ InitBase
    /\ config \in {c \in InitConfigs : c.notion_api_token = ""}
    /\ \E c \in ClockInputs, n \in NoteTexts :
            probe = [fn |-> "append_body", clock |-> c, note_text |-> n,
                     body |-> None]

Stamp_Build ==
    /\ probe.fn = "append_body"
    /\ probe.body = None
    /\ probe' = [probe EXCEPT !.body =
                    Some(AppendBody(probe.clock, probe.note_text))]
    /\ UNCHANGED <<rlvars, config, cache, pool, lock, tk, ops, chg, first>>

NextStamp == Stamp_Build

SpecStamp == InitStamp /\ [][NextStamp]_vars

\* The three-letter English month abbreviations.
MonthNames ==
    << <<"J", "a", "n">>, <<"F", "e", "b">>, <<"M", "a", "r">>,
       <<"A", "p", "r">>, <<"M", "a", "y">>, <<"J", "u", "n">>,
       <<"J", "u", "l">>, <<"A", "u", "g">>, <<"S", "e", "p">>,
       <<"O", "c", "t">>, <<"N", "o", "v">>, <<"D", "e", "c">> >>

\* The two characters of s from position i are the two decimal digits of n.
TwoDigitsAt(s, i, n) ==
    /\ Len(s) >= i + 1
    /\ s[i] = DigitChars[(n \div 10) + 1]
    /\ s[i + 1] = DigitChars[(n % 10) + 1]

\* hh:mm:ss from position i of s.
TimeAt(s, i, c) ==
    /\ TwoDigitsAt(s, i, c.hour)
    /\ s[i + 2] = ":"
    /\ TwoDigitsAt(s, i + 3, c.minute)
    /\ s[i + 5] = ":"
    /\ TwoDigitsAt(s, i + 6, c.second)

\* "[DD Mon " from position 1 of s.
DayMonthAt(s, c) ==
    /\ s[1] = "["
    /\ TwoDigitsAt(s, 2, c.day)
    /\ s[4] = " "
    /\ SubSeq(s, 5, 7) = MonthNames[c.month]
    /\ s[8] = " "

\* The body is one bold paragraph block with one text.
OneParagraph(b) ==
    /\ Len(b.children) = 1
    /\ b.children[1].type = "paragraph"
    /\ Len(b.children[1].rich_text) = 1
    /\ b.children[1].rich_text[1].bold

\* C20 as stated: the text is "[DD Mon HH:MM:SS yy] " followed by the note
\* text.
C20_Original ==
    (probe.fn = "append_body" /\ IsSome(probe.body)) =>
        LET b == Unwrap(probe.body)
            s == b.children[1].rich_text[1].content
            c == probe.clock
        IN  /\ OneParagraph(b)
            /\ DayMonthAt(s, c)
            /\ TimeAt(s, 9, c)
            /\ s[17] = " "
            /\ TwoDigitsAt(s, 18, c.year % 100)
            /\ s[20] = "]"
            /\ s[21] = " "
            /\ SubSeq(s, 22, Len(s)) = probe.note_text

\* C20: append_note_to_page sends one paragraph block whose text is
\* "[DD Mon yy, HH:MM:SS] " followed by the unmodified note text: two-digit
\* day, three-letter month, two-digit year, a comma, then zero-padded
\* hour:minute:second.
C20_StampThenText ==
    (probe.fn = "append_body" /\ IsSome(probe.body)) =>
        LET b == Unwrap(probe.body)
            s == b.children[1].rich_text[1].content
            c == probe.clock
        IN  /\ OneParagraph(b)
            /\ DayMonthAt(s, c)
            /\ TwoDigitsAt(s, 9, c.year % 100)
            /\ s[11] = ","
            /\ s[12] = " "
            /\ TimeAt(s, 13, c)
            /\ s[21] = "]"
            /\ s[22] = " "
            /\ SubSeq(s, 23, Len(s)) = probe.note_text

\* A body was built for a clock with one-digit day, year, hour, minute and
\* second.
C20_Witness ==
    /\ probe.fn = "append_body"
    /\ IsSome(probe.body)
    /\ probe.clock = [day |-> 5, month |-> 3, year |-> 2009, hour |-> 0,
                      minute |-> 3, second |-> 9]
    /\ Len(Unwrap(probe.body).children[1].rich_text[1].content)
            = 22 + Len(probe.note_text)

(***************************************************************************)
(* SpecCache: the cache slot driven directly: any list is stored, the slot *)
(* is cleared and looked up at any time, each under the cache lock, with   *)
(* the clock moving by one millisecond or by one millisecond less than the *)
(* lifetime.  The history records the latest write and the latest lookup   *)
(* made since.                                                             *)
(***************************************************************************)
MaxCacheOps == 3
MaxCacheTicks == 3
CacheTickSteps == {1, CacheDurationMs - 1}
CacheLists == {<< >>, ExtractPages(ResultsA), ExtractPages(ResultsB)}

InitCache ==
    /\ InitBase
    /\ config \in {c \in InitConfigs : c.notion_api_token # ""}
    /\ probe = [fn |-> "cache", last |-> "none", list |-> << >>,
                put_at |-> 0, looked |-> FALSE, got |-> None, got_at |-> 0,
                n |-> 0]

\* the store of search_pages
Cache_Put(pages) ==
    /\ probe.fn = "cache"
    /\ probe.n < MaxCacheOps
    /\ lock["cache"] = Free
    /\ cache' = CachePut(pages, now, config.notion_api_token)
    /\ probe' = [probe EXCEPT !.last = "put", !.list = pages,
                              !.put_at = now, !.looked = FALSE,
                              !.got = None, !.got_at = 0, !.n = @ + 1]
    /\ UNCHANGED <<rlvars, config, pool, lock, tk, ops, chg, first>>

\* invalidate_cache
Cache_Invalidate ==
    /\ probe.fn = "cache"
    /\ probe.n < MaxCacheOps
    /\ lock["cache"] = Free
    /\ cache' = None
    /\ probe' = [probe EXCEPT !.last = "inval", !.list = << >>,
                              !.put_at = 0, !.looked = FALSE,
                              !.got = None, !.got_at = 0, !.n = @ + 1]
    /\ UNCHANGED <<rlvars, config, pool, lock, tk, ops, chg, first>>

\* the lookup of search_pages
Cache_Get ==
    /\ probe.fn = "cache"
    /\ probe.n < MaxCacheOps
    /\ lock["cache"] = Free
    /\ probe' = [probe EXCEPT !.looked = TRUE,
                              !.got = CacheGet(cache, now),
                              !.got_at = now, !.n = @ + 1]
    /\ UNCHANGED <<rlvars, config, cache, pool, lock, tk, ops, chg, first>>

Cache_Tick(d) ==
    /\ probe.fn = "cache"
    /\ ticks < MaxCacheTicks
    /\ now' = now + d
    /\ ticks' = ticks + 1
    /\ UNCHANGED <<states, lastObs, calls, opvars>>

NextCache ==
    \/ \E pages \in CacheLists : Cache_Put(pages)
    \/ Cache_Invalidate
    \/ Cache_Get
    \/ \E d \in CacheTickSteps : Cache_Tick(d)

SpecCache == InitCache /\ [][NextCache]_vars

\* C11: a lookup made after list X was stored at time t, with no write to
\* the slot in between, returns X when it is made before t + 5 minutes and
\* misses when it is made at t + 5 minutes or later; a lookup made after
\* invalidate_cache, with no store in between, misses whatever the age of
\* the entry that was cleared.
C11_CacheRoundTrip ==
    (probe.fn = "cache" /\ probe.looked) =>
        /\ (probe.last = "put" /\ probe.got_at < probe.put_at + 300000)
                => probe.got = Some(probe.list)
        /\ (probe.last = "put" /\ probe.got_at >= probe.put_at + 300000)
                => probe.got = None
        /\ probe.last = "inval" => probe.got = None

\* A lookup exactly five minutes after the store missed.
C11_Witness ==
    /\ probe.fn = "cache"
    /\ probe.looked
    /\ probe.last = "put"
    /\ probe.list # << >>
    /\ probe.got_at = probe.put_at + 300000
    /\ probe.got = None

\* The positions of a command after its client operation has returned.
EmitOrDone == {"emit_state", "emit_allow", "emit_delay", "done"}

\* C12: a search_pages call that finds a valid cache entry returns at once:
\* the task sends no request, search_pages makes no admission check (the
\* only one made is the one get_page_info makes itself before it calls
\* search_pages), nothing is recorded in the registry, and the lookup step
\* leaves the registry as it was.
C12_CacheHitFrame ==
    /\ [](\A t \in Tasks :
            tk[t].lk.hit =>
                /\ tk[t].pc \in EmitOrDone
                /\ tk[t].sent = 0
                /\ tk[t].recorded = "none"
                /\ tk[t].checks = IF tk[t].cmd = "get_page_info" THEN 1 ELSE 0)
    /\ [][\A t \in Tasks :
            (tk[t].pc = "cache_lookup" /\ tk'[t].lk.hit) =>
                /\ states' = states
                /\ tk'[t].pc \in {"emit_state", "done"}]_vars

\* A listing call served from the cache has returned its pages.
C12_Witness ==
    \E t \in Tasks :
        /\ tk[t].cmd = "search"
        /\ tk[t].pc = "done"
        /\ tk[t].lk.hit
        /\ tk[t].result.kind = "Ok"
        /\ tk[t].result.value # << >>
        /\ tk[t].emitted = 1

\* The command built its client and called the client's operation (each
\* operation begins with check_rate_limit or with the cache lookup).
ReachedClient(t) == tk[t].checks > 0 \/ tk[t].lk.done

\* C14: every command that reached the API client has emitted the
\* rate-limit status event by the time it returns, whether it succeeded or
\* failed.
C14_EveryAttemptEmits ==
    \A t \in Tasks :
        (tk[t].pc = "done" /\ ReachedClient(t)) => tk[t].emitted >= 1

\* C17: a command whose verify, search or append call failed returns an
\* error, never a success value.
C17_ErrorsReturned ==
    \A t \in Tasks :
        (tk[t].pc = "done" /\ tk[t].err # NoRes) => tk[t].result.kind # "Ok"

(***************************************************************************)
(* SpecSettings: every operation, set_selected_page_id and                 *)
(* fetch_rate_limit_info included, with one credential, from a             *)
(* configuration that may lack the credential or the selected page.        *)
(***************************************************************************)
MaxSettingsOps == 2
SettingsTokens == {"A"}
SettingsPageIds == {"", "p1"}
SettingsTitles == {"T1"}
SettingsHeaders == {h \in RawHeaders : h.reset_in = Some(60)}
SettingsBodies == {b \in SearchBodies : b.results = Some(ResultsA)}

SettingsConfigs ==
    InitConfigs \cup
        { [notion_api_token |-> "A", selected_page_id |-> "",
           selected_page_title |-> ""] }

InitSettings ==
    /\ InitShared
    /\ config \in SettingsConfigs

NextSettings ==
    \/ \E t \in Tasks, a \in SettingsTokens :
            Start(t, "set_token", a, MaxSettingsOps)
    \/ \E t \in Tasks : Start(t, "search", "", MaxSettingsOps)
    \/ \E t \in Tasks, a \in SettingsPageIds :
            Start(t, "get_page_info", a, MaxSettingsOps)
    \/ \E t \in Tasks, a \in NoteInputs :
            Start(t, "append_note", a, MaxSettingsOps)
    \/ \E t \in Tasks, a \in SettingsPageIds :
            Start(t, "set_page", a, MaxSettingsOps)
    \/ \E t \in Tasks : Start(t, "rate_info", "", MaxSettingsOps)
    \/ \E t \in Tasks : Inval(t)
    \/ \E t \in Tasks : CfgRead(t)
    \/ \E t \in Tasks : NewLookup(t)
    \/ \E t \in Tasks : NewInsert(t)
    \/ \E t \in Tasks, f \in JitterFactors : ChkAllow(t, f)
    \/ \E t \in Tasks, f \in JitterFactors : ChkDelay(t, f)
    \/ \E t \in Tasks : ChkState(t)
    \/ \E t \in Tasks : CacheLookup(t)
    \/ \E t \in Tasks : RecvFail(t)
    \/ \E t \in Tasks, s \in Statuses, h \in SettingsHeaders : Recv(t, s, h)
    \/ \E t \in Tasks, b \in SettingsBodies : SearchBody(t, b)
    \/ \E t \in Tasks : ErrBody(t)
    \/ \E t \in Tasks, ok \in BOOLEAN : CfgStore(t, ok)
    \/ \E t \in Tasks, ti \in SettingsTitles, ok \in BOOLEAN :
            CfgSetPage(t, ti, ok)
    \/ \E t \in Tasks : InfoCfg(t)
    \/ \E t \in Tasks, f \in JitterFactors : InfoAllow(t, f)
    \/ \E t \in Tasks, f \in JitterFactors : InfoDelay(t, f)
    \/ \E t \in Tasks : InfoState(t)
    \/ \E t \in Tasks : EmitState(t)
    \/ \E t \in Tasks, f \in JitterFactors : EmitAllow(t, f)
    \/ \E t \in Tasks, f \in JitterFactors : EmitDelay(t, f)
    \/ \E t \in Tasks : Return(t)
    \/ \E d \in TickSteps : Tick(d)

SpecSettings == InitSettings /\ [][NextSettings]_vars

\* The command was called with an empty (blank) note text or page id.
EmptyArgument(r) ==
    r.cmd \in {"append_note", "get_page_info", "set_page"} /\ Trim(r.arg) = ""

\* The command never got to the API client: no admission check, no cache
\* lookup, no request, nothing recorded in the registry, no event.
Untouched(r) ==
    /\ r.checks = 0
    /\ ~r.lk.done
    /\ r.sent = 0
    /\ r.recorded = "none"
    /\ r.emitted = 0

\* The step in which the command returns leaves the registry as it was.
ReturnKeepsRegistry(t) ==
    (tk[t].pc # "done" /\ tk'[t].pc = "done") => states' = states

ProjectionPcs ==
    {"emit_state", "emit_allow", "emit_delay",
     "info_cfg", "info_allow", "info_delay", "info_state"}

\* C15: no step of emit_rate_limit_event or fetch_rate_limit_info changes
\* the registry: its key set and every field of every entry stay as they
\* were, also when the credential has no entry.
C15_ProjectionReadOnly ==
    [][\A t \in Tasks :
        (tk[t].pc \in ProjectionPcs /\ tk'[t] # tk[t]) => states' = states]_vars

\* fetch_rate_limit_info and an emit have run for a stored credential that
\* has no entry in the registry.
C15_Witness ==
    \E t \in Tasks, u \in Tasks :
        /\ tk[t].cmd = "rate_info"
        /\ tk[t].pc = "done"
        /\ tk[u].emitted = 1
        /\ config.notion_api_token = "A"
        /\ DOMAIN states = {}

\* The registry, cache and pool mutexes.
DataLocks == {"registry", "cache", "pool"}

\* C16: a task holds at most one of the registry, cache and pool mutexes,
\* and holds none of them when it takes one of them.
C16_OneDataLock ==
    /\ [](\A t \in Tasks : Cardinality(Held(t) \cap DataLocks) <= 1)
    /\ [][\A t \in Tasks :
            (tk'[t] # tk[t] /\ LockOf(tk[t].pc) \in DataLocks)
                => Held(t) \cap DataLocks = {}]_vars

\* fetch_rate_limit_info is about to take the registry mutex while it holds
\* the configuration mutex, and a listing call that went to the network has
\* returned.
C16_Witness ==
    \E t \in Tasks, u \in Tasks :
        /\ tk[t].pc = "info_state"
        /\ Held(t) = {"config"}
        /\ tk[u].cmd = "search"
        /\ tk[u].pc = "done"
        /\ tk[u].sent = 1
        /\ tk[u].result.kind = "Ok"

\* 5 March 2024, 14:03:09
ScenarioClock ==
    [day |-> 5, month |-> 3, year |-> 2024, hour |-> 14, minute |-> 3,
     second |-> 9]

\* "Buy milk"
BuyMilk == <<"B", "u", "y", " ", "m", "i", "l", "k">>

\* "[05 Mar 24, 14:03:09] Buy milk"
ScenarioLiteral ==
    <<"[", "0", "5", " ", "M", "a", "r", " ", "2", "4", ",", " ",
      "1", "4", ":", "0", "3", ":", "0", "9", "]", " ">> \o BuyMilk

\* C21: for the clock value 5 March 2024 14:03:09 and the note text
\* "Buy milk" the text of the request built by append_note_to_page begins
\* with "[05 Mar 24, 14:03:09] Buy milk".
C21_ScenarioLiteral ==
    (/\ probe.fn = "append_body"
     /\ IsSome(probe.body)
     /\ probe.clock = ScenarioClock
     /\ probe.note_text = BuyMilk) =>
        LET s == Unwrap(probe.body).children[1].rich_text[1].content
        IN  /\ Len(s) >= Len(ScenarioLiteral)
            /\ SubSeq(s, 1, Len(ScenarioLiteral)) = ScenarioLiteral

\* The request body for that clock value and note text has been built.
C21_Witness ==
    /\ probe.fn = "append_body"
    /\ IsSome(probe.body)
    /\ probe.clock = ScenarioClock
    /\ probe.note_text = BuyMilk

\* C22: for every credential that has been observed, is_rate_limited is
\* true exactly when the latest observation recorded was a 429,
\* consecutive_rate_limits is the number of 429s recorded since the last
\* success, and is_rate_limited holds exactly when consecutive_rate_limits
\* is positive.
C22_LimitedIffCounting ==
    \A c \in Creds :
        /\ c \in DOMAIN states <=> c \in Observed
        /\ c \in Observed =>
              /\ states[c].is_rate_limited <=> lastObs[c].kind = "rate_limit"
              /\ states[c].consecutive_rate_limits = lastObs[c].run
              /\ states[c].is_rate_limited
                    <=> states[c].consecutive_rate_limits > 0

\* Two 429s were recorded in a row after a success.
C22_Witness ==
    \E c \in Creds :
        /\ lastObs[c].kind = "rate_limit"
        /\ lastObs[c].run = 2
        /\ states[c].recent_requests # << >>

(***************************************************************************)
(* SpecCounter: the backoff computation for counters up to the largest     *)
(* value the model's integers hold, at elapsed times around the jittered   *)
(* delay.                                                                  *)
(***************************************************************************)
LargeCount == 2147483647
CounterInputs == {0, 1, 2, 9, 10, 11, LargeCount}
CounterElapsedPerMille == {0, 749, 1000, 1250}

InitCounter ==
    /\ InitBase
    /\ config \in {c \in InitConfigs : c.notion_api_token = ""}
    /\ \E n \in CounterInputs, f \in AllJitterFactors,
          e \in CounterElapsedPerMille :
            probe = [fn |-> "backoff", n |-> n, f |-> f,
                     elapsed |-> (BackoffMs(n) * e) \div 1000,
                     delay |-> None, allowed |-> None]

SpecCounter == InitCounter /\ [][NextBackoff]_vars

\* C26: backoff_allows_request answers true for a counter of 0; for a
\* positive counter n it answers true exactly when the time elapsed since
\* last_updated is at least the jittered value of
\* min(1000 * 2^min(n, 10), 300000) ms: never before 0.75 of that base has
\* elapsed, always once 1.25 of it has; the product before the cap is at
\* most 1000 * 2^10 for every counter.
C26_BackoffAdmission ==
    (probe.fn = "backoff" /\ IsSome(probe.allowed)) =>
        LET n == probe.n
            shifted == 1000 * Pow2(Min(n, 10))
            b == Min(shifted, 300000)
            a == Unwrap(probe.allowed)
        IN  /\ shifted <= 1024000
            /\ n = 0 => a
            /\ n > 0 =>
                  /\ a <=> probe.elapsed >= (b * probe.f) \div 1000
                  /\ 4 * probe.elapsed < 3 * b => ~a
                  /\ 4 * probe.elapsed >= 5 * b => a

\* For the largest counter, admission was granted at an elapsed time equal
\* to the jittered delay.
C26_Witness ==
    /\ probe.fn = "backoff"
    /\ probe.n = LargeCount
    /\ probe.f = 1000
    /\ probe.elapsed = 300000
    /\ probe.allowed = Some(TRUE)

(***************************************************************************)
(* SpecState: the methods of RateLimitState on their own.  A state the     *)
(* registry can hold (the flag set exactly when the counter is positive,   *)
(* last_updated not after the clock) is asked for admission and for its    *)
(* delay, or has a 429 recorded on it.                                     *)
(***************************************************************************)
StateInputs ==
    { st \in [remaining : {None, Some(0), Some(2)},
              reset_at : {None, Some(20000), Some(60000)},
              limit : {None, Some(3)},
              last_updated : {0, 19000},
              recent_requests : {<< >>, <<0>>},
              consecutive_rate_limits : {0, 1, 4},
              is_rate_limited : BOOLEAN] :
        st.is_rate_limited <=> st.consecutive_rate_limits > 0 }

StateTimes == {20000, 20001, 21000, 30000}

RecordArgs ==
    [reset_seconds : {None, Some(30)}, remaining : {None, Some(0), Some(1)},
     limit : {None, Some(3)}]

InitState ==
    /\ InitBase
    /\ config \in {c \in InitConfigs : c.notion_api_token = ""}
    /\ \E st \in StateInputs, t \in StateTimes :
          \/ \E f \in JitterFactors :
                probe = [fn |-> "decide", st |-> st, t |-> t, f |-> f,
                         allow |-> None, delay |-> None]
          \/ \E a \in RecordArgs :
                probe = [fn |-> "record", st |-> st, t |-> t, args |-> a,
                         after |-> None]

\* should_allow_request on the state
State_Allow ==
    /\ probe.fn = "decide"
    /\ probe.allow = None
    /\ probe' = [probe EXCEPT !.allow =
                    Some(should_allow_request(probe.st, probe.t, probe.f))]
    /\ UNCHANGED <<rlvars, config, cache, pool, lock, tk, ops, chg, first>>

\* get_recommended_delay on the state
State_Delay ==
    /\ probe.fn = "decide"
    /\ probe.delay = None
    /\ probe' = [probe EXCEPT !.delay =
                    Some(get_recommended_delay(probe.st, probe.t, probe.f))]
    /\ UNCHANGED <<rlvars, config, cache, pool, lock, tk, ops, chg, first>>

\* record_rate_limit on the state
State_RecordRateLimit ==
    /\ probe.fn = "record"
    /\ probe.after = None
    /\ probe' = [probe EXCEPT !.after =
                    Some(record_rate_limit(probe.st, probe.t,
                                           probe.args.reset_seconds,
                                           probe.args.remaining,
                                           probe.args.limit))]
    /\ UNCHANGED <<rlvars, config, cache, pool, lock, tk, ops, chg, first>>

NextState ==
    \/ State_Allow
    \/ State_Delay
    \/ State_RecordRateLimit

SpecState == InitState /\ [][NextState]_vars

\* The reset time of the state is known and already past.
ResetPast(st, t) == IsSome(st.reset_at) /\ t > Unwrap(st.reset_at)

\* C23: should_allow_request is true for a state that is not limited;
\* for a limited state it is true when reset_at is known and past;
\* otherwise, when remaining is known, it is remaining > 0 whatever reset_at
\* and the backoff say; and only when remaining is unknown it is what the
\* backoff rule answers.
C23_DecisionOrder ==
    (probe.fn = "decide" /\ IsSome(probe.allow)) =>
        LET st == probe.st
            t == probe.t
            r == Unwrap(probe.allow)
        IN  /\ ~st.is_rate_limited => r
            /\ (st.is_rate_limited /\ ResetPast(st, t)) => r
            /\ (st.is_rate_limited /\ ~ResetPast(st, t)
                    /\ IsSome(st.remaining))
                    => (r <=> Unwrap(st.remaining) > 0)
            /\ (st.is_rate_limited /\ ~ResetPast(st, t)
                    /\ st.remaining = None)
                    => (r <=> (t - st.last_updated)
                                >= (BackoffMs(st.consecutive_rate_limits)
                                        * probe.f) \div 1000)

\* A limited state with remaining 0 was refused although its backoff delay
\* had elapsed, the reset time being exactly now.
C23_Witness ==
    /\ probe.fn = "decide"
    /\ probe.allow = Some(FALSE)
    /\ probe.st.remaining = Some(0)
    /\ probe.st.reset_at = Some(probe.t)
    /\ probe.st.consecutive_rate_limits = 1
    /\ probe.t - probe.st.last_updated >= 20000

\* C27: get_recommended_delay is 0 for a state that is not limited; for a
\* limited state it is reset_at - now when reset_at is known and in the
\* future, and otherwise a jittered backoff value, which is positive; so
\* when should_allow_request is false for the state, the delay is not zero.
C27_DelayNonZeroWhenDenied ==
    (probe.fn = "decide" /\ IsSome(probe.delay)) =>
        LET st == probe.st
            t == probe.t
            d == Unwrap(probe.delay)
            b == BackoffMs(st.consecutive_rate_limits)
            future == IsSome(st.reset_at) /\ Unwrap(st.reset_at) > t
        IN  /\ ~st.is_rate_limited => d = 0
            /\ (st.is_rate_limited /\ future) => d = Unwrap(st.reset_at) - t
            /\ (st.is_rate_limited /\ ~future) =>
                    /\ d > 0
                    /\ 4 * d >= 3 * b
                    /\ 4 * d <= 5 * b
            /\ probe.allow = Some(FALSE) => d > 0

\* A state refused because remaining is 0, whose reset time is not in the
\* future, got a backoff delay.
C27_Witness ==
    /\ probe.fn = "decide"
    /\ probe.allow = Some(FALSE)
    /\ IsSome(probe.delay)
    /\ probe.st.reset_at = Some(probe.t)
    /\ Unwrap(probe.delay) = (BackoffMs(4) * probe.f) \div 1000

\* C28: record_rate_limit adds one to consecutive_rate_limits, sets
\* is_rate_limited, sets last_updated to now, overwrites remaining and limit
\* with its arguments also when they are unknown, sets reset_at to
\* now + reset_seconds when reset_seconds is given and leaves reset_at as it
\* was when it is not, and leaves the recent requests as they were.
C28_RecordRateLimitEffect ==
    (probe.fn = "record" /\ IsSome(probe.after)) =>
        LET st == probe.st
            a == probe.args
            n == Unwrap(probe.after)
        IN  /\ n.consecutive_rate_limits = st.consecutive_rate_limits + 1
            /\ n.is_rate_limited
            /\ n.last_updated = probe.t
            /\ n.remaining = a.remaining
            /\ n.limit = a.limit
            /\ IsSome(a.reset_seconds) =>
                    n.reset_at = Some(probe.t + 1000 * Unwrap(a.reset_seconds))
            /\ a.reset_seconds = None => n.reset_at = st.reset_at
            /\ n.recent_requests = st.recent_requests

\* A 429 without headers was recorded on a state whose remaining and limit
\* were known and whose reset time was already past.
C28_Witness ==
    /\ probe.fn = "record"
    /\ IsSome(probe.after)
    /\ probe.args = [reset_seconds |-> None, remaining |-> None,
                     limit |-> None]
    /\ probe.st.remaining = Some(2)
    /\ probe.st.limit = Some(3)
    /\ probe.st.reset_at = Some(20000)
    /\ probe.t = 30000
    /\ probe.st.recent_requests # << >>

\* C24: once set_notion_api_token has changed the stored credential, a
\* valid cache entry holds a list fetched with the credential that is
\* stored now, under every interleaving with the listing calls.
C24_CacheFetchedWithStoredCredential ==
    (chg # "none" /\ CacheValid(cache, now)) =>
        Unwrap(cache).token = config.notion_api_token

(***************************************************************************)
(* SpecPool: NotionApiClient::new called concurrently.  The pool maps a    *)
(* credential to the client stored for it; every built client gets a new   *)
(* number.  The lookup and the insertion are two critical sections on      *)
(* CLIENT_POOL with the building of the client between them.               *)
(***************************************************************************)
MaxPoolCalls == 4

PoolTokens == {"A", "B", "BAD"}

InitPool ==
    /\ InitBase
    /\ config \in {c \in InitConfigs : c.notion_api_token = ""}
    /\ probe = [fn |-> "pool", clients |-> << >>,
                built |-> [k \in PoolTokens |-> 0],
                pc |-> [t \in Tasks |-> "idle"],
                api_token |-> [t \in Tasks |-> ""],
                got |-> [t \in Tasks |-> None],
                n |-> 0]

\* NotionApiClient::new(api_token) is called
Pool_New(t, token) ==
    /\ probe.fn = "pool"
    /\ probe.pc[t] = "idle"
    /\ probe.n < MaxPoolCalls
    /\ probe' = [probe EXCEPT !.pc[t] = "lookup", !.api_token[t] = token,
                              !.got[t] = None, !.n = @ + 1]
    /\ UNCHANGED <<rlvars, config, cache, pool, lock, tk, ops, chg, first>>

\* the first critical section: the stored client is returned when there is
\* one; an invalid header value ends the call with an error
Pool_Lookup(t) ==
    /\ probe.fn = "pool"
    /\ probe.pc[t] = "lookup"
    /\ LET k == probe.api_token[t]
       IN  probe' = IF k \in DOMAIN probe.clients
                    THEN [probe EXCEPT !.pc[t] = "idle",
                                       !.got[t] = Some(probe.clients[k])]
                    ELSE IF ~ValidHeader(k)
                    THEN [probe EXCEPT !.pc[t] = "idle"]
                    ELSE [probe EXCEPT !.pc[t] = "insert"]
    /\ UNCHANGED <<rlvars, config, cache, pool, lock, tk, ops, chg, first>>

\* Client::builder()...build() and the second critical section:
\* client_pool.insert(api_token, client)
Pool_Insert(t) ==
    /\ probe.fn = "pool"
    /\ probe.pc[t] = "insert"
    /\ LET k == probe.api_token[t]
           id == probe.built["A"] + probe.built["B"] + 1
       IN  probe' = [probe EXCEPT !.pc[t] = "idle",
                                  !.built[k] = @ + 1,
                                  !.clients = Put(@, k, id),
                                  !.got[t] = Some(id)]
    /\ UNCHANGED <<rlvars, config, cache, pool, lock, tk, ops, chg, first>>

NextPool ==
    \/ \E t \in Tasks, k \in PoolTokens : Pool_New(t, k)
    \/ \E t \in Tasks : Pool_Lookup(t)
    \/ \E t \in Tasks : Pool_Insert(t)

SpecPool == InitPool /\ [][NextPool]_vars

\* An entry of the pool stays, with the same client.
PoolEntriesKept ==
    \A k \in DOMAIN probe.clients :
        /\ k \in DOMAIN probe'.clients
        /\ probe'.clients[k] = probe.clients[k]

\* C29: under every interleaving of NotionApiClient::new calls, at most one
\* client is built for a credential, and an entry of the pool, once stored,
\* is neither replaced nor removed.
C29_OneClientPerCredential ==
    /\ [](\A k \in PoolTokens : probe.built[k] <= 1)
    /\ [][PoolEntriesKept]_vars

\* Task t took the step.
Moved(t) == tk'[t].pc # tk[t].pc

\* Task t, in search_pages, read the body of a 2xx response, found the
\* results array in it and stored the pages.
StoresPages(t) ==
    /\ tk[t].cmd \in {"search", "get_page_info"}
    /\ tk[t].pc = "await_body"
    /\ Moved(t)
    /\ IsSuccess(tk[t].status)
    /\ tk'[t].err = NoRes
    /\ IsSome(cache')

\* Task t, in set_notion_api_token, ran invalidate_cache.
ClearsCache(t) ==
    /\ tk[t].cmd = "set_token"
    /\ tk[t].pc = "inval"
    /\ Moved(t)
    /\ cache' = None

\* search_pages of task t ended with an error in this step.
ListingFails(t) ==
    /\ tk[t].cmd \in {"search", "get_page_info"}
    /\ Moved(t)
    /\ tk[t].err = NoRes
    /\ tk'[t].err # NoRes

\* C30: the cache slot changes only when a search_pages call that received
\* a 2xx response with a results array stores its pages, or when
\* set_notion_api_token clears it; a step in which a listing call fails
\* (admission denial, transport failure, 429, other non-2xx status,
\* unparsable body, missing results array) leaves the slot as it was.
C30_CacheFrame ==
    [][/\ cache' # cache =>
            \E t \in Tasks : StoresPages(t) \/ ClearsCache(t)
       /\ \A t \in Tasks : ListingFails(t) => cache' = cache]_vars

\* A listing call failed on the body of its response while the cache held
\* the pages another call had stored.
C30_Witness ==
    \E t \in Tasks :
        /\ tk[t].cmd = "search"
        /\ tk[t].err = ApiError(None)
        /\ IsSome(cache)

(***************************************************************************)
(* SpecLive: 429 responses are recorded on the manager and the clock moves *)
(* on.  The clock can always move on after a 429 (weak fairness of         *)
(* Live_Tick): far enough in one step that every reset time and every      *)
(* backoff delay recorded before the step has gone by.                     *)
(***************************************************************************)
MaxLiveCalls == 3

\* Steps of the clock that are followed after the last 429.
MaxLiveTicks == 2

\* One step of the clock (ms): longer than 1.25 * 300000 ms of backoff and
\* than any reset time drawn from ResetSecondsArgs.
LiveTickStep == 400000

Live_RecordRateLimit(c, rs, rem, lim) ==
    /\ calls < MaxLiveCalls
    /\ states' = Mgr_record_rate_limit(states, c, now, rs, rem, lim)
    /\ lastObs' = ObserveRateLimit(lastObs, states, c, now, rs, rem)
    /\ calls' = calls + 1
    /\ ticks' = 0
    /\ UNCHANGED now
    /\ UNCHANGED opvars

Live_Tick ==
    /\ ticks < MaxLiveTicks
    /\ now' = now + LiveTickStep
    /\ ticks' = ticks + 1
    /\ UNCHANGED <<states, lastObs, calls>>
    /\ UNCHANGED opvars

NextLive ==
    \/ \E c \in Creds, rs \in ResetSecondsArgs, rem \in RemainingArgs,
          lim \in LimitArgs : Live_RecordRateLimit(c, rs, rem, lim)
    \/ Live_Tick

SpecLive == InitRL /\ [][NextLive]_vars /\ WF_vars(Live_Tick)

\* The state of credential c is Limited.
Limited(c) == c \in DOMAIN states /\ states[c].is_rate_limited

\* should_allow_request(c) returns true, whatever the jitter.
Admitted(c) ==
    \A f \in JitterFactors : Mgr_should_allow_request(states, c, now, f)

\* C25: a credential in the Limited state after a 429, whatever the 429
\* told about reset, remaining and limit, is admitted again after some
\* time when no further 429 is recorded.
C25_NeverBlockedForever ==
    \A c \in Creds : Limited(c) ~> Admitted(c)

\* The kinds of error a command returns.
ErrorResults ==
    {"ValidationError", "ConfigError", "NetworkError", "NotionApiError",
     "RateLimitError"}

\* C31: a step of set_notion_api_token or set_selected_page_id that ends
\* the call with an error leaves the configuration as it was: the stored
\* credential, page id and page title change only in a call that goes on
\* to return success.
C31_ErrorLeavesConfig ==
    [][\A t \in Tasks :
          (tk[t].cmd \in {"set_token", "set_page"} /\ Moved(t)
                /\ tk'[t].result.kind \in ErrorResults)
            => config' = config]_vars

\* Recording a response left credential b as it was: its entry, its
\* admission decision and its recommended delay.
SameFor(b) ==
    /\ Mgr_get_state(states', b) = Mgr_get_state(states, b)
    /\ \A f \in JitterFactors :
          /\ Mgr_should_allow_request(states', b, now', f)
                = Mgr_should_allow_request(states, b, now, f)
          /\ Mgr_get_recommended_delay(states', b, now', f)
                = Mgr_get_recommended_delay(states, b, now, f)

\* C32: record_success or record_rate_limit for a credential leaves the
\* entry of every other credential as it was, and with it the admission
\* decision and the recommended delay of every other credential.
C32_PerCredentialIsolation ==
    [][calls' # calls =>
          \E a \in Creds :
              /\ Mgr_get_state(states', a) # Mgr_get_state(states, a)
              /\ \A b \in Creds \ {a} : SameFor(b)]_vars

\* A success was recorded for one credential after a 429 for another, which
\* is still limited and refused.
C32_Witness ==
    \E a \in Creds, b \in Creds :
        /\ a # b
        /\ lastObs[a].kind = "rate_limit"
        /\ lastObs[b].kind = "success"
        /\ lastObs[b].at > lastObs[a].at
        /\ states[a].consecutive_rate_limits = 2
        /\ \A f \in JitterFactors :
              ~Mgr_should_allow_request(states, a, now, f)

\* Task t, waiting for its response, recorded it in the registry.
RecordsResponse(t) ==
    /\ tk[t].pc = "await_resp"
    /\ Moved(t)
    /\ tk'[t].recorded \in {"success", "rate_limit"}

\* C33: the key set of the registry only grows, and it grows only in a step
\* that records a response (record_success or record_rate_limit) for the
\* credential that gets the entry; no admission check, delay query or
\* status projection adds a key.
C33_RegistryOnlyGrows ==
    [][/\ DOMAIN states \subseteq DOMAIN states'
       /\ DOMAIN states' # DOMAIN states =>
            \E t \in Tasks :
                /\ RecordsResponse(t)
                /\ DOMAIN states' = DOMAIN states \cup {tk[t].api_token}]_vars

\* The entry of the credential was created by the one success recorded for
\* it, in a call that had gone through the admission check before and
\* emitted the status after.
C33_Witness ==
    \E t \in Tasks :
        /\ tk[t].recorded = "success"
        /\ tk[t].checks >= 1
        /\ tk[t].emitted = 1
        /\ DOMAIN states = {"A"}
        /\ Len(states["A"].recent_requests) = 1
        /\ states["A"].consecutive_rate_limits = 0

\* remaining, limit, reset_at and last_updated of an entry; those of the
\* default state at time t when the credential has no entry.
HeaderFields(reg, c, t) ==
    LET st == EntryOrDefault(reg, c, t)
    IN  <<st.remaining, st.limit, st.reset_at, st.last_updated>>

\* limit and remaining as emit_rate_limit_event reports them.
Reported(reg, c) ==
    LET st == Mgr_get_state(reg, c)
    IN  IF IsSome(st) THEN <<Unwrap(st).limit, Unwrap(st).remaining>>
        ELSE <<None, None>>

AdmissionPcs == {"chk_allow", "chk_delay", "chk_state"}

\* C35: no step of the admission check changes the registry, whether the
\* operation is admitted or rejected: consecutive_rate_limits,
\* last_updated, reset_at, remaining, limit and is_rate_limited of the
\* credential stay as they were, however many attempts are rejected.
C35_RejectionKeepsState ==
    [][\A t \in Tasks :
          (tk[t].pc \in AdmissionPcs /\ Moved(t)) => states' = states]_vars

\* Both tasks had an attempt rejected after the one 429 recorded for the
\* credential, whose entry is still the one the 429 left.
C35_Witness ==
    \E c \in DOMAIN states :
        /\ \A t \in Tasks : tk[t].denied /\ tk[t].pc = "done"
        /\ lastObs[c].kind = "rate_limit"
        /\ states[c].consecutive_rate_limits = 1
        /\ states[c].last_updated = lastObs[c].at

\* C36: a response is applied to the registry in the step in which it
\* arrives: a success leaves the credential Clear (counter 0, not limited,
\* admitted) whatever was recorded before it arrived, also a 429 that
\* arrived after the request of the success was sent; a 429 leaves the
\* credential limited with one more on its counter.
C36_AppliedInArrivalOrder ==
    [][\A t \in Tasks :
          RecordsResponse(t) =>
            LET c == tk[t].api_token
                n == EntryOrDefault(states, c, now).consecutive_rate_limits
            IN  /\ c \in DOMAIN states'
                /\ tk'[t].recorded = "success" =>
                      /\ states'[c].consecutive_rate_limits = 0
                      /\ ~states'[c].is_rate_limited
                      /\ \A f \in JitterFactors :
                            Mgr_should_allow_request(states', c, now', f)
                /\ tk'[t].recorded = "rate_limit" =>
                      /\ states'[c].consecutive_rate_limits = n + 1
                      /\ states'[c].is_rate_limited]_vars

\* One task got a 429 with remaining 0 and a reset time still ahead, which
\* refuses every later admission; the other task, admitted before that,
\* then got its success, and the credential is Clear.
C36_Witness ==
    \E t \in Tasks, u \in Tasks, c \in DOMAIN states :
        /\ t # u
        /\ tk[t].recorded = "rate_limit"
        /\ tk[u].recorded = "success"
        /\ tk[u].checks >= 1
        /\ lastObs[c].kind = "success"
        /\ lastObs[c].prev_limited
        /\ states[c].remaining = Some(0)
        /\ IsSome(states[c].reset_at)
        /\ Unwrap(states[c].reset_at) > now
        /\ states[c].consecutive_rate_limits = 0

(***************************************************************************)
(* SpecSettingsFair: SpecSettings with every started command scheduled.    *)
(* A task that can take its next step (its network call has returned or    *)
(* timed out, or the mutex it needs is free) takes it at some time: the     *)
(* runtime polls every ready future, the HTTP client has a 10 s timeout,    *)
(* and a thread blocked on a mutex gets it once it stays free.              *)
(***************************************************************************)
\* A step of the command running in task t.
TaskStep(t) ==
    \/ Inval(t)
    \/ CfgRead(t)
    \/ NewLookup(t)
    \/ NewInsert(t)
    \/ \E f \in JitterFactors : ChkAllow(t, f)
    \/ \E f \in JitterFactors : ChkDelay(t, f)
    \/ ChkState(t)
    \/ CacheLookup(t)
    \/ RecvFail(t)
    \/ \E s \in Statuses, h \in SettingsHeaders : Recv(t, s, h)
    \/ \E b \in SettingsBodies : SearchBody(t, b)
    \/ ErrBody(t)
    \/ \E ok \in BOOLEAN : CfgStore(t, ok)
    \/ \E ti \in SettingsTitles, ok \in BOOLEAN : CfgSetPage(t, ti, ok)
    \/ InfoCfg(t)
    \/ \E f \in JitterFactors : InfoAllow(t, f)
    \/ \E f \in JitterFactors : InfoDelay(t, f)
    \/ InfoState(t)
    \/ EmitState(t)
    \/ \E f \in JitterFactors : EmitAllow(t, f)
    \/ \E f \in JitterFactors : EmitDelay(t, f)

SpecSettingsFair ==
    /\ InitSettings
    /\ [][NextSettings]_vars
    /\ \A t \in Tasks : WF_vars(TaskStep(t))

\* The mutex the next step of task t takes.
Needs(t) == LockOf(tk[t].pc)

\* Task t waits for a mutex that another task holds.
WaitsFor(t, u) ==
    /\ t # u
    /\ Needs(t) \in LockNames
    /\ lock[Needs(t)] = u

\* fetch_rate_limit_info between taking the configuration mutex and
\* returning.
InfoHolding == {"info_allow", "info_delay", "info_state"}

\* The mutexes are taken in one order: the configuration mutex is taken by
\* a task that holds nothing, and is the only one held while another is
\* taken; a held mutex belongs to a running fetch_rate_limit_info.
LockOrder ==
    \A t \in Tasks :
        /\ Held(t) \subseteq {"config"}
        /\ Held(t) # {} <=> tk[t].pc \in InfoHolding
        /\ Needs(t) \in Held(t) => FALSE
        /\ Needs(t) = "config" => Held(t) = {}

\* No task waits for a task that waits for it.
NoWaitCycle ==
    \A t \in Tasks, u \in Tasks : ~(WaitsFor(t, u) /\ WaitsFor(u, t))

\* C37: in every interleaving of the operations, fetch_rate_limit_info
\* included, the mutexes are taken in an order without a cycle and no task
\* waits for a task that waits for it; every started command returns.
C37_NoDeadlock ==
    /\ [](LockOrder /\ NoWaitCycle)
    /\ \A t \in Tasks : (tk[t].pc \notin {"idle", "done"}) ~> (tk[t].pc = "done")

\* fetch_rate_limit_info holds the configuration mutex and is about to take
\* the registry mutex while the other task waits for the configuration
\* mutex.
C37_Witness ==
    \E t \in Tasks, u \in Tasks :
        /\ tk[t].cmd = "rate_info"
        /\ tk[t].pc = "info_allow"
        /\ lock["config"] = t
        /\ WaitsFor(u, t)

(***************************************************************************)
(* SpecRecent: record_success called again and again on one state as the   *)
(* clock moves on, starting from states whose list of recent requests is   *)
(* empty, short, one below the cap or at the cap.                          *)
(***************************************************************************)
MaxRecentCalls == 3
MaxRecentTicks == 2

RecentTickSteps == {1, 1000}

\* Lists of k request times, s ms apart.
RecentLists ==
    { [i \in 1..k |-> i * s] : k \in {0, 1, 19, 20}, s \in {0, 1000} }

InitRecent ==
    /\ InitBase
    /\ config \in {c \in InitConfigs : c.notion_api_token = ""}
    /\ \E l \in RecentLists, n \in {0, 2} :
          probe = [fn |-> "recent",
                   st |-> [DefaultState(0) EXCEPT
                              !.recent_requests = l,
                              !.consecutive_rate_limits = n,
                              !.is_rate_limited = (n > 0)],
                   t |-> 20000, n |-> 0, ticks |-> 0]

\* record_success on the state
Recent_RecordSuccess ==
    /\ probe.fn = "recent"
    /\ probe.n < MaxRecentCalls
    /\ probe' = [probe EXCEPT !.st = record_success(probe.st, probe.t),
                              !.n = @ + 1]
    /\ UNCHANGED <<rlvars, config, cache, pool, lock, tk, ops, chg, first>>

\* Instant::now() moves on
Recent_Tick(d) ==
    /\ probe.fn = "recent"
    /\ probe.ticks < MaxRecentTicks
    /\ probe' = [probe EXCEPT !.t = @ + d, !.ticks = @ + 1]
    /\ UNCHANGED <<rlvars, config, cache, pool, lock, tk, ops, chg, first>>

NextRecent ==
    \/ Recent_RecordSuccess
    \/ \E d \in RecentTickSteps : Recent_Tick(d)

SpecRecent == InitRecent /\ [][NextRecent]_vars

\* The times of s do not decrease.
NonDecreasing(s) == \A i \in 1..(Len(s) - 1) : s[i] <= s[i + 1]

\* record_success turned the list old into the list new at time t: t was
\* appended, and the oldest entry, and only that one, is gone when old was
\* at the cap.
AppendedEvictingOldest(old, new, t) ==
    /\ Len(new) = Min(Len(old) + 1, MaxRecent)
    /\ new[Len(new)] = t
    /\ SubSeq(new, 1, Len(new) - 1)
          = IF Len(old) < MaxRecent THEN old ELSE SubSeq(old, 2, Len(old))

\* C38: the list of recent requests holds at most 20 entries, in
\* non-decreasing time order; each record_success appends the current time
\* and evicts the oldest entry, and only that, when the list would grow
\* past 20.
C38_RecentBounded ==
    /\ [](/\ Len(probe.st.recent_requests) <= MaxRecent
          /\ NonDecreasing(probe.st.recent_requests))
    /\ [][probe'.n # probe.n =>
            AppendedEvictingOldest(probe.st.recent_requests,
                                   probe'.st.recent_requests, probe.t)]_vars

\* A full list of distinct times lost its two oldest entries to two later
\* successes.
C38_Witness ==
    /\ probe.fn = "recent"
    /\ probe.n = 2
    /\ Len(probe.st.recent_requests) = MaxRecent
    /\ probe.st.recent_requests[1] = 3000
    /\ probe.st.recent_requests[MaxRecent - 1] = 20000
    /\ probe.st.recent_requests[MaxRecent] = 21000

(***************************************************************************)
(* SpecExtract: the extraction of the pages from the results array of a    *)
(* search response, on entries given with their property bag.  An entry    *)
(* has an id (or none), a "properties" object (or none) as the sequence of *)
(* its values in iteration order, and the parent page's title (or none);   *)
(* a property value has a "title" array (or none) of segments, each with   *)
(* a text content (or none).                                               *)
(***************************************************************************)
MaxEntries == 2

Segment(content) == [content |-> content]
Property(title) == [title |-> title]

PropertyBags ==
    { None,
      Some(<< >>),
      Some(<<Property(None)>>),
      Some(<<Property(Some(<< >>))>>),
      Some(<<Property(Some(<<Segment(Some("T1"))>>))>>),
      Some(<<Property(Some(<<Segment(None), Segment(Some("T2"))>>))>>),
      Some(<<Property(None), Property(Some(<<Segment(Some("T1"))>>))>>),
      Some(<<Property(Some(<< >>)),
             Property(Some(<<Segment(Some("T2")), Segment(Some("T1"))>>))>>) }

RawEntries ==
    [id : {None, Some("p1")}, properties : PropertyBags,
     parent_title : {None, Some("PT")}]

RawResults == UNION {[1..n -> RawEntries] : n \in 0..MaxEntries}

\* for (_, prop) in props: the content of the first segment of the first
\* property that has a "title" array whose first segment has a text content
RECURSIVE PropTitle(_)
PropTitle(props) ==
    IF props = << >> THEN None
    ELSE LET prop == Head(props)
         IN  IF /\ IsSome(prop.title)
                /\ Unwrap(prop.title) # << >>
                /\ IsSome(Head(Unwrap(prop.title)).content)
             THEN Head(Unwrap(prop.title)).content
             ELSE PropTitle(Tail(props))

EntryView_mutNoParent(raw) ==
    [id |-> IF IsSome(raw.id) THEN Unwrap(raw.id) ELSE "",
     prop_title |-> IF IsSome(raw.properties)
                    THEN PropTitle(Unwrap(raw.properties)) ELSE None,
     parent_title |-> None]

\* One entry of the results array as the extraction sees it:
\* page["id"].as_str().unwrap_or(""), the title found in the properties,
\* page["parent"]["page"]["title"].as_str()
EntryView(raw) ==
    [id |-> IF IsSome(raw.id) THEN Unwrap(raw.id) ELSE "",
     prop_title |-> IF IsSome(raw.properties)
                    THEN PropTitle(Unwrap(raw.properties)) ELSE None,
     parent_title |-> raw.parent_title]

EntryViews(raws) == [i \in 1..Len(raws) |-> EntryView(raws[i])]

InitExtract ==
    /\ InitBase
    /\ config \in {c \in InitConfigs : c.notion_api_token = ""}
    /\ \E raws \in RawResults :
          probe = [fn |-> "extract", results |-> raws, pages |-> None]

\* results_array.iter().filter_map(..).collect()
Extract_Pages ==
    /\ probe.fn = "extract"
    /\ probe.pages = None
    /\ probe' = [probe EXCEPT
                    !.pages = Some(ExtractPages(EntryViews(probe.results)))]
    /\ UNCHANGED <<rlvars, config, cache, pool, lock, tk, ops, chg, first>>

NextExtract == Extract_Pages

SpecExtract == InitExtract /\ [][NextExtract]_vars

\* The properties of the entry whose first title segment has a text.
TitledProps(raw) ==
    IF raw.properties = None THEN {}
    ELSE LET props == Unwrap(raw.properties)
         IN  { i \in 1..Len(props) :
                 /\ IsSome(props[i].title)
                 /\ Len(Unwrap(props[i].title)) > 0
                 /\ IsSome(Unwrap(props[i].title)[1].content) }

\* The title the strategies give for an entry: the first segment of a
\* title-typed property, else the parent page's title, else none.
StrategyTitle(raw) ==
    IF TitledProps(raw) # {}
    THEN LET i == CHOOSE i \in TitledProps(raw) :
                     \A j \in TitledProps(raw) : i <= j
         IN  Unwrap(raw.properties)[i].title[1][1].content
    ELSE raw.parent_title

\* The entries that have a title.
Kept(raws) == {i \in 1..Len(raws) : IsSome(StrategyTitle(raws[i]))}

\* C39: the pages extracted from a results array are, in the order of the
\* array, the entries for which a title is found, each with the text of
\* the first segment of a title-typed property if there is one and with
\* the parent page's title otherwise; an entry without either is left out
\* and the other entries are extracted as if it were not there.
C39_TitleStrategies ==
    (probe.fn = "extract" /\ IsSome(probe.pages)) =>
        LET raws == probe.results
            pages == Unwrap(probe.pages)
        IN  /\ Len(pages) = Cardinality(Kept(raws))
            /\ \A i \in Kept(raws) :
                  LET k == Cardinality({j \in Kept(raws) : j <= i})
                  IN  /\ pages[k].title = Unwrap(StrategyTitle(raws[i]))
                      /\ pages[k].id = EntryView(raws[i]).id

\* The first entry has no title anywhere and is left out; the second has a
\* title in its second property and a parent title, and is emitted with
\* the property's.
C39_Witness ==
    /\ probe.fn = "extract"
    /\ Len(probe.results) = 2
    /\ StrategyTitle(probe.results[1]) = None
    /\ probe.results[1].properties
          = Some(<<Property(Some(<< >>))>>)
    /\ probe.results[2].properties
          = Some(<<Property(None), Property(Some(<<Segment(Some("T1"))>>))>>)
    /\ probe.results[2].parent_title = Some("PT")
    /\ probe.pages = Some(<<[id |-> "p1", title |-> "T1"]>>)

====
